---- MODULE Spec2Model ----
(***************************************************************************)
(* Booking lifecycle and shift check-in / check-out of the smenuberu API.  *)
(*                                                                         *)
(* The state is the relational store (Session, User, Object, Slot,         *)
(* Booking, UserGeoPing rows), the wall clock, and the handlers that are   *)
(* suspended between two store calls.  Every route handler is an operator  *)
(* giving its response in the current state and an action giving its       *)
(* writes.  Under Spec a handler runs from its first store call to its     *)
(* reply without interruption; under SpecConc the handlers of concurrent   *)
(* requests interleave at their store calls.                               *)
(*                                                                         *)
(* Timestamps are milliseconds since the midnight that starts the modelled *)
(* day (Date.getTime() minus that midnight).  Coordinates: every modelled  *)
(* point lies on one meridian and its lat is the arc length in metres      *)
(* along it, so that the haversine distance of two points is the absolute  *)
(* difference of their lats.                                               *)
(***************************************************************************)
EXTENDS Integers, Sequences, FiniteSets, TLC

VARIABLES now, sessions, users, objects, slots, bookings, pings, inflight,
          issued, oAuthState

\* issued: the random values (session tokens, QR tokens, OAuth states) drawn
\* so far; oAuthState: the OAuthState table

vars == <<now, sessions, users, objects, slots, bookings, pings, inflight, issued,
          oAuthState>>

\* the store: everything but the clock
store == <<sessions, users, objects, slots, bookings, pings>>

\* SQL NULL of a text column (an id) and of a numeric or timestamp column
NULL == "null"

NONE == -1

-----------------------------------------------------------------------------
(* Bounds of the model *)

\* rows of the Booking table
MaxBookings == 2

\* handlers suspended at the same time
MaxInflight == 2

-----------------------------------------------------------------------------
(* Time *)

HM(h, m) == (h * 60 + m) * 60 * 1000

\* the instant the clock takes after the initial one under Spec: the check-in
\* windows of all slots are open, no end deadline has passed
Instants == { HM(18, 10) }

PING_MAX_AGE_MS == 2 * 60 * 1000

START_WINDOW_MS == 15 * 60 * 1000

END_DEADLINE_MS == 4 * 60 * 60 * 1000

GEOFENCE_M == 200

\* process.env.SESSION_DAYS (the code's default is 30)
SESSION_DAYS == 1

SessionTtlMs == SESSION_DAYS * 24 * 60 * 60 * 1000

-----------------------------------------------------------------------------
(* Identifiers and request inputs *)

Users == {"c", "p"}

\* session cookies a request may carry; "" is a request without the cookie,
\* "kx" a token no Session row was ever stored for
Cookies == {"", "kc", "kp", "kx"}



\* crypto sha256 of a session token: injective on the modelled tokens
sha256Hex(s) ==
    CASE s = "kc" -> "hc"
      [] s = "kp" -> "hp"
      [] OTHER    -> "hx"

\* qrToken values a scan may carry; "t0" is owned by no user
QrTokens == {"tc", "tp", "t0"}

ObjectIds == {"o1", "o2"}

\* slotId values of requests; "s0" is the id of no Slot row
SlotIds == {"s0", "s1", "s2"}

Statuses == {"booked", "cancelled", "checkin_requested", "started", "ended"}

-----------------------------------------------------------------------------
(* Pure helpers *)

Abs(x) == IF x < 0 THEN 0 - x ELSE x

\* haversineMeters for two points of one meridian: dLng = 0 leaves
\* 2 R asin(sin(|dLat| / 2)) = R |dLat|, the arc between the two lats
haversineMeters(aLat, aLng, bLat, bLng) == Abs(bLat - aLat)

\* Number.isFinite of a nullable coordinate
IsFinite(x) == x # NONE

\* the ids (row numbers) of the Booking rows
BookingIds == 1..Len(bookings)

\* the rows a prisma.booking.findFirst filter matches; findFirst without
\* orderBy returns any one of them
Matching(P(_)) == { i \in BookingIds : P(bookings[i]) }

\* a sequence without its i-th element
Remove(seq, i) == SubSeq(seq, 1, i - 1) \o SubSeq(seq, i + 1, Len(seq))

\* a handler's response
Response(code, error) == [code |-> code, error |-> error, distanceM |-> NONE]

Ok == Response(200, "")

-----------------------------------------------------------------------------
(* Sessions *)

\* faulty variant of getUserIdFromSession: a session still counts at the
\* instant it expires
getUserIdFromSession_ExpiryExclusive(k) ==
    IF k = "" THEN NULL
    ELSE LET tokenHash == sha256Hex(k) IN
         IF tokenHash \notin DOMAIN sessions THEN NULL
         ELSE IF sessions[tokenHash].expiresAt < now THEN NULL
         ELSE sessions[tokenHash].userId

\* getUserIdFromSession: the user the cookie's session belongs to, or NULL
getUserIdFromSession(k) ==
    IF k = "" THEN NULL
    ELSE LET tokenHash == sha256Hex(k) IN
         IF tokenHash \notin DOMAIN sessions THEN NULL
         ELSE IF sessions[tokenHash].expiresAt <= now THEN NULL
         ELSE sessions[tokenHash].userId

\* the Session table after getUserIdFromSession: an expired row read is deleted
SessionsAfterRead(k) ==
    LET tokenHash == sha256Hex(k) IN
    IF k # "" /\ tokenHash \in DOMAIN sessions /\ sessions[tokenHash].expiresAt <= now
    THEN [h \in DOMAIN sessions \ {tokenHash} |-> sessions[h]]
    ELSE sessions

-----------------------------------------------------------------------------
(* Initial state: the users c and p have logged in at time 0; c has stored  *)
(* two objects (POST /objects), o1 with coordinates and o2 without, and two *)
(* slots of overlapping planned times (POST /slots), s1 10:00-18:00 at o1   *)
(* and s2 12:00-20:00 at o2; no booking and no ping exists.                 *)

InitSlots ==
    [s \in {"s1", "s2"} |->
        IF s = "s1"
        THEN [objectId |-> "o1", date |-> 0, startTime |-> HM(10, 0),
              endTime |-> HM(18, 0), createdById |-> "c"]
        ELSE [objectId |-> "o2", date |-> 0, startTime |-> HM(12, 0),
              endTime |-> HM(20, 0), createdById |-> "c"]]

Init ==
    /\ now = 0
    /\ sessions = [h \in {"hc", "hp"} |->
                      [userId |-> IF h = "hc" THEN "c" ELSE "p",
                       expiresAt |-> SessionTtlMs]]
    /\ users = [u \in Users |->
                   [performerQrToken |-> IF u = "c" THEN "tc" ELSE "tp",
                    sessionHash |-> NULL]]
    /\ objects = [o \in ObjectIds |->
                     IF o = "o1" THEN [lat |-> 0, lng |-> 37]
                                 ELSE [lat |-> NONE, lng |-> NONE]]
    /\ slots = InitSlots
    /\ bookings = <<>>
    /\ pings = <<>>
    /\ inflight = <<>>
    /\ issued = {"kc", "kp", "tc", "tp"}
    /\ oAuthState = [q \in {} |-> [provider |-> NULL, expiresAt |-> NONE]]

-----------------------------------------------------------------------------
(* The clock *)

Tick(I) ==
    /\ \E t \in I : t > now /\ now' = t
    /\ UNCHANGED <<store, inflight, issued, oAuthState>>

-----------------------------------------------------------------------------
(* GET /bookings/state *)

\* the rows booking.findMany({ where: { userId } }) returns
StateList(userId) == { i \in BookingIds : bookings[i].userId = userId }

\* the maps the loop `out[b.slotId] = b.status` can build: findMany has no
\* orderBy, the rows come in any order, and for every slot the row that
\* comes last wins
StateMaps(userId) ==
    LET keys == { bookings[i].slotId : i \in StateList(userId) } IN
    { out \in [keys -> Statuses] :
        \A slotId \in keys :
            \E i \in StateList(userId) : /\ bookings[i].slotId = slotId
                                         /\ bookings[i].status = out[slotId] }

StateResponse(k) ==
    IF getUserIdFromSession(k) = NULL THEN Response(401, "Unauthorized") ELSE Ok

GetState(k) ==
    /\ sessions' = SessionsAfterRead(k)
    /\ UNCHANGED <<oAuthState, issued, now, users, objects, slots, bookings, pings,
                   inflight>>

-----------------------------------------------------------------------------
(* POST /objects and PATCH /objects/:id: the coordinates.  Here lat and lng *)
(* are degrees, as the schemas read them.                                   *)

\* a key the JSON body does not carry (`undefined` after parsing)
ABSENT == -2

\* latSchema and lngSchema, each .optional().nullable()
latSchema(lat) == lat \in {ABSENT, NONE} \/ (lat >= -90 /\ lat <= 90)

lngSchema(lng) == lng \in {ABSENT, NONE} \/ (lng >= -180 /\ lng <= 180)

\* `x ?? null`
OrNull(x) == IF x = ABSENT THEN NONE ELSE x

InvalidPair == Response(400, "lat/lng must be both set or both null")

CreateObjectResponse(k, lat, lng) ==
    IF getUserIdFromSession(k) = NULL THEN Response(401, "Unauthorized")
    ELSE IF ~latSchema(lat) \/ ~lngSchema(lng) THEN Response(400, "invalid payload")
    ELSE IF (OrNull(lat) = NONE) # (OrNull(lng) = NONE) THEN InvalidPair
    ELSE Response(201, "")

CreateObject(k, id, lat, lng) ==
    /\ id \notin DOMAIN objects
    /\ sessions' = SessionsAfterRead(k)
    /\ UNCHANGED <<oAuthState, issued, now, users, slots, bookings, pings, inflight>>
    /\ IF CreateObjectResponse(k, lat, lng).code = 201
       THEN objects' = [o \in DOMAIN objects \cup {id} |->
                           IF o = id THEN [lat |-> OrNull(lat), lng |-> OrNull(lng)]
                                     ELSE objects[o]]
       ELSE UNCHANGED objects

PatchObjectResponse(k, id, lat, lng) ==
    IF getUserIdFromSession(k) = NULL THEN Response(401, "Unauthorized")
    ELSE IF ~latSchema(lat) \/ ~lngSchema(lng) THEN Response(400, "invalid payload")
    ELSE IF id \notin DOMAIN objects THEN Response(404, "not found")
    ELSE IF /\ (lat # ABSENT \/ lng # ABSENT)
            /\ (OrNull(lat) = NONE) # (OrNull(lng) = NONE) THEN InvalidPair
    ELSE Ok

\* data.lat and data.lng are written only for the keys the body carries
PatchObject(k, id, lat, lng) ==
    /\ sessions' = SessionsAfterRead(k)
    /\ UNCHANGED <<oAuthState, issued, now, users, slots, bookings, pings, inflight>>
    /\ IF PatchObjectResponse(k, id, lat, lng) = Ok
       THEN objects' = [objects EXCEPT
                ![id].lat = IF lat # ABSENT THEN OrNull(lat) ELSE @,
                ![id].lng = IF lng # ABSENT THEN OrNull(lng) ELSE @]
       ELSE UNCHANGED objects

-----------------------------------------------------------------------------
(* GET /bookings/list *)

ListResponse(k) ==
    IF getUserIdFromSession(k) = NULL THEN Response(401, "Unauthorized") ELSE Ok

GetList(k) ==
    /\ sessions' = SessionsAfterRead(k)
    /\ UNCHANGED <<oAuthState, issued, now, users, objects, slots, bookings, pings,
                   inflight>>

-----------------------------------------------------------------------------
(* The login callback, GET /auth/me and POST /auth/logout *)

\* randomToken(): the raw session tokens not drawn so far (32 random bytes
\* do not repeat)
FreshTokens == (Cookies \ {""}) \ issued

\* the values the unique index User_performerQrToken_key admits for a user:
\* those no other user holds
QrFree(userId) ==
    { t \in QrTokens :
        \A v \in DOMAIN users \ {userId} : users[v].performerQrToken # t }

\* randomPerformerQrToken() under the retry loop of ensurePerformerQrToken:
\* a value not drawn so far (24 random bytes do not repeat) that the unique
\* index admits
QrDraws(userId) == QrFree(userId) \ issued

\* ensurePerformerQrToken run at once: an existing token is kept, otherwise
\* the drawn token is written
UsersAfterEnsure(userId, token) ==
    IF users[userId].performerQrToken # NULL THEN users
    ELSE [users EXCEPT ![userId].performerQrToken = token]

\* the Session table after session.create for the raw token
SessionsAfterLogin(userId, rawSessionToken) ==
    [h \in DOMAIN sessions \cup {sha256Hex(rawSessionToken)} |->
        IF h = sha256Hex(rawSessionToken)
        THEN [userId |-> userId, expiresAt |-> now + SessionTtlMs]
        ELSE sessions[h]]

\* the callback of a login the provider has resolved to the user: the QR
\* token is ensured, a session is created and its raw token set as cookie
Login(userId) ==
    /\ \E rawSessionToken \in FreshTokens :
          /\ sessions' = SessionsAfterLogin(userId, rawSessionToken)
          /\ IF users[userId].performerQrToken # NULL
             THEN /\ users' = users
                  /\ issued' = issued \cup {rawSessionToken}
             ELSE \E token \in QrDraws(userId) :
                  /\ users' = UsersAfterEnsure(userId, token)
                  /\ issued' = issued \cup {rawSessionToken, token}
    /\ UNCHANGED <<oAuthState, now, objects, slots, bookings, pings, inflight>>

\* GET /auth/me: the user of the response, NULL for `user: null`
MeUser(k) ==
    IF k = "" THEN NULL
    ELSE IF sha256Hex(k) \notin DOMAIN sessions THEN NULL
    ELSE IF sessions[sha256Hex(k)].expiresAt <= now THEN NULL
    ELSE sessions[sha256Hex(k)].userId

\* the Session table without the rows of a token hash
SessionsWithout(tokenHash) ==
    [h \in DOMAIN sessions \ {tokenHash} |-> sessions[h]]

AuthMe(k) ==
    /\ sessions' = IF k # "" /\ sha256Hex(k) \in DOMAIN sessions
                             /\ sessions[sha256Hex(k)].expiresAt <= now
                   THEN SessionsWithout(sha256Hex(k))
                   ELSE sessions
    /\ UNCHANGED <<oAuthState, issued, now, users, objects, slots, bookings, pings,
                   inflight>>

Logout(k) ==
    /\ sessions' = IF k = "" THEN sessions ELSE SessionsWithout(sha256Hex(k))
    /\ UNCHANGED <<oAuthState, issued, now, users, objects, slots, bookings, pings,
                   inflight>>

-----------------------------------------------------------------------------
(* startFlow and the state check of callbackFlow *)

\* the flows and flowConfig(kind).provider
FlowKinds == { "client", "web" }

Provider(kind) == IF kind = "client" THEN "yandex_client" ELSE "yandex_web"

\* the values randomState() can draw and a request can carry
OAuthStates == { "q1", "q2" }

\* the lifetime of a stored state: 10 minutes
STATE_TTL_MS == 10 * 60 * 1000

\* GET /auth/yandex/<kind>/start: a fresh state is stored and handed out as
\* query parameter and as cookie yandex_oauth_state
StartFlow(kind) ==
    /\ \E state \in OAuthStates \ issued :
          /\ oAuthState' = [q \in DOMAIN oAuthState \cup {state} |->
                               IF q = state
                               THEN [provider |-> Provider(kind),
                                     expiresAt |-> now + STATE_TTL_MS]
                               ELSE oAuthState[q]]
          /\ issued' = issued \cup {state}
    /\ UNCHANGED <<now, sessions, users, objects, slots, bookings, pings, inflight>>

\* the state check of the callback: the stored row decides when it exists
\* for the provider of the flow, the cookie otherwise
StateCheckResponse(kind, state, cookieState) ==
    IF state = "" THEN Response(400, "missing code/state")
    ELSE IF state \notin DOMAIN oAuthState
            \/ oAuthState[state].provider # Provider(kind)
         THEN IF cookieState = "" \/ cookieState # state
              THEN Response(400, "invalid state")
              ELSE Ok
    ELSE IF oAuthState[state].expiresAt <= now THEN Response(400, "state expired")
    ELSE Ok

\* the OAuthState table after the check: a row found for the provider is
\* deleted, expired or not
OAuthStateAfterCheck(kind, state) ==
    IF /\ state \in DOMAIN oAuthState
       /\ oAuthState[state].provider = Provider(kind)
    THEN [q \in DOMAIN oAuthState \ {state} |-> oAuthState[q]]
    ELSE oAuthState

\* GET /auth/yandex/<kind>/callback?code=..&state=..: after the state check
\* the provider resolves the code to a user (NULL: the exchange fails and
\* the callback ends with 500), whose QR token is ensured and who gets a
\* session
Callback(kind, state, cookieState, userId) ==
    /\ UNCHANGED <<now, objects, slots, bookings, pings, inflight>>
    /\ oAuthState' = OAuthStateAfterCheck(kind, state)
    /\ IF StateCheckResponse(kind, state, cookieState) = Ok /\ userId # NULL
       THEN \E rawSessionToken \in FreshTokens :
              /\ sessions' = SessionsAfterLogin(userId, rawSessionToken)
              /\ IF users[userId].performerQrToken # NULL
                 THEN /\ users' = users
                      /\ issued' = issued \cup {rawSessionToken}
                 ELSE \E token \in QrDraws(userId) :
                      /\ users' = UsersAfterEnsure(userId, token)
                      /\ issued' = issued \cup {rawSessionToken, token}
       ELSE UNCHANGED <<sessions, users, issued>>

-----------------------------------------------------------------------------
(* ensurePerformerQrToken as two steps: the caller, the login callback or   *)
(* POST /auth/qr/backfill, has read a user without token and is suspended   *)
(* before user.update                                                       *)

\* QR_BACKFILL_SECRET and the values of the query parameter `key`
BackfillSecret == "secret"

BackfillKeys == { "", "secret", "guess" }

BackfillResponse(key) ==
    IF BackfillSecret = "" \/ key # BackfillSecret
    THEN Response(403, "forbidden")
    ELSE Ok

\* the callback up to the read of ensurePerformerQrToken: a user with a
\* token gets the session at once, a user without waits for the update
LoginBegin(userId) ==
    /\ UNCHANGED <<oAuthState, now, users, objects, slots, bookings, pings>>
    /\ IF users[userId].performerQrToken # NULL
       THEN /\ \E rawSessionToken \in FreshTokens :
                 /\ sessions' = SessionsAfterLogin(userId, rawSessionToken)
                 /\ issued' = issued \cup {rawSessionToken}
            /\ UNCHANGED inflight
       ELSE /\ Len(inflight) < MaxInflight
            /\ inflight' = Append(inflight,
                   [op |-> "ensure", userId |-> userId, caller |-> "callback"])
            /\ UNCHANGED <<sessions, issued>>

\* POST /auth/qr/backfill?key=..&limit=1: one user without token is taken
BackfillBegin(key) ==
    /\ UNCHANGED <<oAuthState, issued, now, sessions, users, objects, slots, bookings,
                   pings>>
    /\ IF BackfillResponse(key) = Ok
          /\ \E u \in DOMAIN users : users[u].performerQrToken = NULL
       THEN /\ Len(inflight) < MaxInflight
            /\ \E u \in { v \in DOMAIN users : users[v].performerQrToken = NULL } :
                 inflight' = Append(inflight,
                     [op |-> "ensure", userId |-> u, caller |-> "backfill"])
       ELSE UNCHANGED inflight

\* user.update({ where: { id }, data: { performerQrToken: token } }), and
\* for the callback the session that follows
EnsureCommit(i) ==
    /\ inflight[i].op = "ensure"
    /\ inflight' = Remove(inflight, i)
    /\ UNCHANGED <<oAuthState, now, objects, slots, bookings, pings>>
    /\ \E token \in QrDraws(inflight[i].userId) :
         /\ users' = [users EXCEPT ![inflight[i].userId].performerQrToken = token]
         /\ IF inflight[i].caller = "callback"
            THEN \E rawSessionToken \in FreshTokens :
                   /\ sessions' = SessionsAfterLogin(inflight[i].userId, rawSessionToken)
                   /\ issued' = issued \cup {rawSessionToken, token}
            ELSE /\ sessions' = sessions
                 /\ issued' = issued \cup {token}

-----------------------------------------------------------------------------
(* getUserIdFromSession as two steps: the handler has read an expired row   *)
(* and is suspended before session.delete                                   *)

\* faulty variant of ResolveCommit: every session of the row's user goes
ResolveCommit_ByUser(i) ==
    /\ inflight[i].op = "session-delete"
    /\ sessions' = [h \in { g \in DOMAIN sessions :
                              sessions[g].userId # inflight[i].userId } |->
                       sessions[h]]
    /\ inflight' = Remove(inflight, i)
    /\ UNCHANGED <<oAuthState, issued, now, users, objects, slots, bookings, pings>>

ResolveBegin(k) ==
    /\ UNCHANGED <<oAuthState, issued, now, sessions, users, objects, slots, bookings,
                   pings>>
    /\ IF k # "" /\ sha256Hex(k) \in DOMAIN sessions
                 /\ sessions[sha256Hex(k)].expiresAt <= now
       THEN /\ Len(inflight) < MaxInflight
            /\ inflight' = Append(inflight,
                   [op |-> "session-delete", tokenHash |-> sha256Hex(k),
                    userId |-> sessions[sha256Hex(k)].userId])
       ELSE UNCHANGED inflight

\* session.delete({ where: { tokenHash } }): the error it rejects with,
\* NULL when the row was there
DeleteError(tokenHash) ==
    IF tokenHash \in DOMAIN sessions THEN NULL ELSE "P2025"

\* what the suspended getUserIdFromSession returns: .catch(() => {}) turns
\* a rejected delete into a fulfilled one, and `return null` follows
ResolveResult(i) ==
    LET caught(error) == NULL
    IN [userId |-> NULL, error |-> caught(DeleteError(inflight[i].tokenHash))]

ResolveCommit(i) ==
    /\ inflight[i].op = "session-delete"
    /\ sessions' = SessionsWithout(inflight[i].tokenHash)
    /\ inflight' = Remove(inflight, i)
    /\ UNCHANGED <<oAuthState, issued, now, users, objects, slots, bookings, pings>>

-----------------------------------------------------------------------------
(* POST /bookings *)

\* faulty variant of NewBooking: the row is born confirmed
NewBooking_Confirmed(userId, slotId) ==
    [userId |-> userId, slotId |-> slotId, status |-> "booked",
     startsAt |-> now, endsAt |-> NONE,
     startConfirmedAt |-> now, startConfirmedById |-> userId,
     startLat |-> NONE, startLng |-> NONE,
     endConfirmedAt |-> NONE, endConfirmedById |-> NULL,
     endLat |-> NONE, endLng |-> NONE]

NewBooking(userId, slotId) ==
    [userId |-> userId, slotId |-> slotId, status |-> "booked",
     startsAt |-> NONE, endsAt |-> NONE,
     startConfirmedAt |-> NONE, startConfirmedById |-> NULL,
     startLat |-> NONE, startLng |-> NONE,
     endConfirmedAt |-> NONE, endConfirmedById |-> NULL,
     endLat |-> NONE, endLng |-> NONE]

\* faulty variants of CreateExisting: the lookup finds the wrong statuses
CreateExisting_Cancelled(userId, slotId, b) ==
    b.userId = userId /\ b.slotId = slotId /\ b.status = "cancelled"

CreateExisting_AnyStatus(userId, slotId, b) ==
    b.userId = userId /\ b.slotId = slotId

\* the filter of the "existing" lookup of POST /bookings
CreateExisting(userId, slotId, b) ==
    b.userId = userId /\ b.slotId = slotId /\ b.status = "booked"

\* faulty variant of CreateResponse: the slot is not looked up
CreateResponse_NoSlotCheck(k, slotId) ==
    LET userId == getUserIdFromSession(k)
        existing(b) == CreateExisting(userId, slotId, b)
    IN
    IF userId = NULL THEN Response(401, "Unauthorized")
    ELSE IF Matching(existing) # {} THEN Response(400, "Already booked")
    ELSE Ok

CreateResponse(k, slotId) ==
    LET userId == getUserIdFromSession(k)
        existing(b) == CreateExisting(userId, slotId, b)
    IN
    IF userId = NULL THEN Response(401, "Unauthorized")
    ELSE IF slotId \notin DOMAIN slots THEN Response(404, "Slot not found")
    ELSE IF Matching(existing) # {} THEN Response(400, "Already booked")
    ELSE Ok

CreateBooking(k, slotId) ==
    LET userId == getUserIdFromSession(k) IN
    /\ sessions' = SessionsAfterRead(k)
    /\ UNCHANGED <<oAuthState, issued, now, users, objects, slots, pings, inflight>>
    /\ IF CreateResponse(k, slotId) = Ok
       THEN /\ Len(bookings) < MaxBookings
            /\ bookings' = Append(bookings, NewBooking(userId, slotId))
       ELSE UNCHANGED bookings

-----------------------------------------------------------------------------
(* POST /bookings/cancel *)

\* faulty variants of CancelTarget: the lookup forgets the slot, the status
CancelTarget_AnySlot(userId, slotId, b) ==
    b.userId = userId /\ b.status = "booked"

CancelTarget_AnyStatus(userId, slotId, b) ==
    b.userId = userId /\ b.slotId = slotId

\* the filter of the lookup of POST /bookings/cancel
CancelTarget(userId, slotId, b) ==
    b.userId = userId /\ b.slotId = slotId /\ b.status = "booked"

\* faulty variant of CancelResponse: the session is not checked first
CancelResponse_NoSessionCheck(k, slotId) ==
    LET userId == getUserIdFromSession(k)
        target(b) == CancelTarget(userId, slotId, b)
    IN
    IF Matching(target) = {} THEN Response(404, "Active booking not found")
    ELSE Ok

CancelResponse(k, slotId) ==
    LET userId == getUserIdFromSession(k)
        target(b) == CancelTarget(userId, slotId, b)
    IN
    IF userId = NULL THEN Response(401, "Unauthorized")
    ELSE IF Matching(target) = {} THEN Response(404, "Active booking not found")
    ELSE Ok

CancelBooking(k, slotId) ==
    LET userId == getUserIdFromSession(k)
        target(b) == CancelTarget(userId, slotId, b)
    IN
    /\ sessions' = SessionsAfterRead(k)
    /\ UNCHANGED <<oAuthState, issued, now, users, objects, slots, pings, inflight>>
    /\ IF CancelResponse(k, slotId) = Ok
       THEN \E id \in Matching(target) :
                bookings' = [bookings EXCEPT ![id].status = "cancelled"]
       ELSE UNCHANGED bookings

-----------------------------------------------------------------------------
(* Geofence: the 200 m check of the slot's object, shared by check-in and   *)
(* the two confirmations                                                    *)

\* the object has both coordinates
HasCoords(slot) ==
    /\ slot.objectId \in DOMAIN objects
    /\ IsFinite(objects[slot.objectId].lat)
    /\ IsFinite(objects[slot.objectId].lng)

\* distM of a position to the slot's object
DistM(slot, lat, lng) ==
    haversineMeters(lat, lng, objects[slot.objectId].lat, objects[slot.objectId].lng)

\* faulty variant of TooFar: the edge of the geofence is outside
TooFar_Inclusive(slot, lat, lng) == HasCoords(slot) /\ DistM(slot, lat, lng) >= GEOFENCE_M

TooFar(slot, lat, lng) == HasCoords(slot) /\ DistM(slot, lat, lng) > GEOFENCE_M

TooFarResponse(slot, lat, lng) ==
    [code |-> 400, error |-> "too far from object", distanceM |-> DistM(slot, lat, lng)]

-----------------------------------------------------------------------------
(* UserGeoPing *)

PingIds == 1..Len(pings)

NewPing(userId, lat, lng) ==
    [userId |-> userId, lat |-> lat, lng |-> lng, createdAt |-> now]

\* faulty variant of FreshPings: a fresh ping of any user counts
FreshPings_AnyUser(userId) ==
    { i \in PingIds : pings[i].createdAt >= now - PING_MAX_AGE_MS }

\* the pings of a user created within PING_MAX_AGE_MS
FreshPings(userId) ==
    { i \in PingIds : /\ pings[i].userId = userId
                      /\ pings[i].createdAt >= now - PING_MAX_AGE_MS }

\* faulty variant of PingChoices: any fresh ping, not the newest
PingChoices_AnyFresh(userId) ==
    IF FreshPings(userId) = {} THEN {0} ELSE FreshPings(userId)

\* userGeoPing.findFirst ... orderBy createdAt desc: a fresh ping of the
\* greatest createdAt (any one of them when several share it), 0 when none
PingChoices(userId) ==
    IF FreshPings(userId) = {} THEN {0}
    ELSE { i \in FreshPings(userId) :
             \A j \in FreshPings(userId) : pings[j].createdAt <= pings[i].createdAt }

-----------------------------------------------------------------------------
(* POST /geo/ping *)

\* getUserIdFromSession of routes/geo.ts: the user whose sessionHash column
\* holds the cookie's hash
geoGetUserIdFromSession(k) ==
    IF k = "" THEN NULL
    ELSE LET found == { u \in DOMAIN users : users[u].sessionHash = sha256Hex(k) } IN
         IF found = {} THEN NULL ELSE CHOOSE u \in found : TRUE

PingResponse(k, lat, lng) ==
    IF geoGetUserIdFromSession(k) = NULL THEN Response(401, "unauthorized")
    ELSE IF ~IsFinite(lat) \/ ~IsFinite(lng) THEN Response(400, "invalid coords")
    ELSE Ok

RecordPing(k, lat, lng) ==
    /\ UNCHANGED <<oAuthState, issued, now, sessions, users, objects, slots, bookings,
                   inflight>>
    /\ IF PingResponse(k, lat, lng) = Ok
       THEN pings' = Append(pings, NewPing(geoGetUserIdFromSession(k), lat, lng))
       ELSE UNCHANGED pings

-----------------------------------------------------------------------------
(* POST /slots/:id/start: the performer asks for check-in *)

\* faulty variant of CheckinTarget: a started shift may ask for check-in again
CheckinTarget_Started(userId, slotId, b) ==
    b.slotId = slotId /\ b.userId = userId /\ b.status \in {"booked", "started"}

\* the booking the handler looks for among the slot's bookings
CheckinTarget(userId, slotId, b) ==
    b.slotId = slotId /\ b.userId = userId /\ b.status = "booked"

\* faulty variant of CheckinResponse: no time window
CheckinResponse_NoWindow(k, slotId, lat, lng) ==
    LET userId == getUserIdFromSession(k)
        target(b) == CheckinTarget(userId, slotId, b)
    IN
    IF userId = NULL THEN Response(401, "Unauthorized")
    ELSE IF ~IsFinite(lat) \/ ~IsFinite(lng) THEN Response(400, "lat/lng required")
    ELSE IF slotId \notin DOMAIN slots THEN Response(404, "slot not found")
    ELSE IF Matching(target) = {} THEN Response(403, "not your booked slot")
    ELSE IF TooFar(slots[slotId], lat, lng) THEN TooFarResponse(slots[slotId], lat, lng)
    ELSE Ok

CheckinResponse(k, slotId, lat, lng) ==
    LET userId == getUserIdFromSession(k)
        target(b) == CheckinTarget(userId, slotId, b)
    IN
    IF userId = NULL THEN Response(401, "Unauthorized")
    ELSE IF ~IsFinite(lat) \/ ~IsFinite(lng) THEN Response(400, "lat/lng required")
    ELSE IF slotId \notin DOMAIN slots THEN Response(404, "slot not found")
    ELSE IF Matching(target) = {} THEN Response(403, "not your booked slot")
    ELSE IF now < slots[slotId].startTime - START_WINDOW_MS THEN Response(400, "too early")
    ELSE IF TooFar(slots[slotId], lat, lng) THEN TooFarResponse(slots[slotId], lat, lng)
    ELSE Ok

\* faulty variant of RequestCheckin: the user's position is kept in one row,
\* overwritten by every check-in
RequestCheckin_KeepsLastPing(k, slotId, lat, lng) ==
    LET userId == getUserIdFromSession(k)
        target(b) == CheckinTarget(userId, slotId, b)
    IN
    /\ sessions' = SessionsAfterRead(k)
    /\ UNCHANGED <<oAuthState, issued, now, users, objects, slots, inflight>>
    /\ IF CheckinResponse(k, slotId, lat, lng) = Ok
       THEN /\ pings' = <<NewPing(userId, lat, lng)>>
            /\ \E id \in Matching(target) :
                   bookings' = [bookings EXCEPT ![id].status = "checkin_requested"]
       ELSE UNCHANGED <<pings, bookings>>

RequestCheckin(k, slotId, lat, lng) ==
    LET userId == getUserIdFromSession(k)
        target(b) == CheckinTarget(userId, slotId, b)
    IN
    /\ sessions' = SessionsAfterRead(k)
    /\ UNCHANGED <<oAuthState, issued, now, users, objects, slots, inflight>>
    /\ IF CheckinResponse(k, slotId, lat, lng) = Ok
       THEN /\ pings' = Append(pings, NewPing(userId, lat, lng))
            /\ \E id \in Matching(target) :
                   bookings' = [bookings EXCEPT ![id].status = "checkin_requested"]
       ELSE UNCHANGED <<pings, bookings>>

-----------------------------------------------------------------------------
(* POST /bookings/confirm-start and POST /bookings/confirm-end: the senior  *)
(* scans the performer's QR token                                           *)

\* prisma.user.findUnique({ where: { performerQrToken } }): the id or NULL
PerformerByQr(qrToken) ==
    LET found == { u \in DOMAIN users : users[u].performerQrToken = qrToken } IN
    IF found = {} THEN NULL ELSE CHOOSE u \in found : TRUE

\* faulty variant of ConfirmStartTarget: the lookup forgets the status
ConfirmStartTarget_AnyStatus(performerId, slotId, b) ==
    /\ b.slotId = slotId
    /\ b.userId = performerId
    /\ b.startConfirmedAt = NONE

\* the filter of the booking lookup of confirm-start
ConfirmStartTarget(performerId, slotId, b) ==
    /\ b.slotId = slotId
    /\ b.userId = performerId
    /\ b.status \in {"booked", "checkin_requested"}
    /\ b.startConfirmedAt = NONE

\* faulty variant of ConfirmStartResponse: the creator is checked before the
\* booking is looked up
ConfirmStartResponse_CreatorFirst(k, slotId, qrToken, pingId) ==
    LET seniorId == getUserIdFromSession(k)
        performerId == PerformerByQr(qrToken)
        target(b) == ConfirmStartTarget(performerId, slotId, b)
    IN
    IF seniorId = NULL THEN Response(401, "Unauthorized")
    ELSE IF performerId = NULL THEN Response(404, "Performer not found by qrToken")
    ELSE IF slotId \in DOMAIN slots /\ slots[slotId].createdById # seniorId
         THEN Response(403, "Only slot creator can confirm")
    ELSE IF Matching(target) = {} THEN Response(404, "Booking not found")
    ELSE IF now < slots[slotId].startTime - START_WINDOW_MS THEN Response(400, "too early")
    ELSE IF pingId = 0 THEN Response(400, "no fresh geo ping from performer")
    ELSE IF TooFar(slots[slotId], pings[pingId].lat, pings[pingId].lng)
         THEN TooFarResponse(slots[slotId], pings[pingId].lat, pings[pingId].lng)
    ELSE Ok

\* faulty variant of ConfirmStartResponse: the window opens a moment late
ConfirmStartResponse_EarlyInclusive(k, slotId, qrToken, pingId) ==
    LET seniorId == getUserIdFromSession(k)
        performerId == PerformerByQr(qrToken)
        target(b) == ConfirmStartTarget(performerId, slotId, b)
    IN
    IF seniorId = NULL THEN Response(401, "Unauthorized")
    ELSE IF performerId = NULL THEN Response(404, "Performer not found by qrToken")
    ELSE IF Matching(target) = {} THEN Response(404, "Booking not found")
    ELSE IF slots[slotId].createdById # seniorId
         THEN Response(403, "Only slot creator can confirm")
    ELSE IF now <= slots[slotId].startTime - START_WINDOW_MS THEN Response(400, "too early")
    ELSE IF pingId = 0 THEN Response(400, "no fresh geo ping from performer")
    ELSE IF TooFar(slots[slotId], pings[pingId].lat, pings[pingId].lng)
         THEN TooFarResponse(slots[slotId], pings[pingId].lat, pings[pingId].lng)
    ELSE Ok

\* faulty variant of ConfirmStartResponse: any logged-in user may confirm
ConfirmStartResponse_AnySenior(k, slotId, qrToken, pingId) ==
    LET seniorId == getUserIdFromSession(k)
        performerId == PerformerByQr(qrToken)
        target(b) == ConfirmStartTarget(performerId, slotId, b)
    IN
    IF seniorId = NULL THEN Response(401, "Unauthorized")
    ELSE IF performerId = NULL THEN Response(404, "Performer not found by qrToken")
    ELSE IF Matching(target) = {} THEN Response(404, "Booking not found")
    ELSE IF now < slots[slotId].startTime - START_WINDOW_MS THEN Response(400, "too early")
    ELSE IF pingId = 0 THEN Response(400, "no fresh geo ping from performer")
    ELSE IF TooFar(slots[slotId], pings[pingId].lat, pings[pingId].lng)
         THEN TooFarResponse(slots[slotId], pings[pingId].lat, pings[pingId].lng)
    ELSE Ok

\* pingId is the row userGeoPing.findFirst returned, 0 when it found none
ConfirmStartResponse(k, slotId, qrToken, pingId) ==
    LET seniorId == getUserIdFromSession(k)
        performerId == PerformerByQr(qrToken)
        target(b) == ConfirmStartTarget(performerId, slotId, b)
    IN
    IF seniorId = NULL THEN Response(401, "Unauthorized")
    ELSE IF performerId = NULL THEN Response(404, "Performer not found by qrToken")
    ELSE IF Matching(target) = {} THEN Response(404, "Booking not found")
    ELSE IF slots[slotId].createdById # seniorId
         THEN Response(403, "Only slot creator can confirm")
    ELSE IF now < slots[slotId].startTime - START_WINDOW_MS THEN Response(400, "too early")
    ELSE IF pingId = 0 THEN Response(400, "no fresh geo ping from performer")
    ELSE IF TooFar(slots[slotId], pings[pingId].lat, pings[pingId].lng)
         THEN TooFarResponse(slots[slotId], pings[pingId].lat, pings[pingId].lng)
    ELSE Ok

\* faulty variant of ConfirmStart: a rejected scan cancels the located booking
ConfirmStart_RejectCancels(k, slotId, qrToken) ==
    LET seniorId == getUserIdFromSession(k)
        performerId == PerformerByQr(qrToken)
        target(b) == ConfirmStartTarget(performerId, slotId, b)
    IN
    /\ sessions' = SessionsAfterRead(k)
    /\ UNCHANGED <<oAuthState, issued, now, users, objects, slots, pings, inflight>>
    /\ \E pingId \in PingChoices(performerId) :
         IF ConfirmStartResponse(k, slotId, qrToken, pingId) = Ok
         THEN \E id \in Matching(target) :
                bookings' = [bookings EXCEPT ![id] =
                    [@ EXCEPT !.status = "started",
                              !.startsAt = now,
                              !.startConfirmedAt = now,
                              !.startConfirmedById = seniorId,
                              !.startLat = pings[pingId].lat,
                              !.startLng = pings[pingId].lng]]
         ELSE IF Matching(target) # {}
         THEN \E id \in Matching(target) :
                bookings' = [bookings EXCEPT ![id].status = "cancelled"]
         ELSE UNCHANGED bookings

\* faulty variant of ConfirmStart: the update also stamps the end of the shift
ConfirmStart_SetsEnd(k, slotId, qrToken) ==
    LET seniorId == getUserIdFromSession(k)
        performerId == PerformerByQr(qrToken)
        target(b) == ConfirmStartTarget(performerId, slotId, b)
    IN
    /\ sessions' = SessionsAfterRead(k)
    /\ UNCHANGED <<oAuthState, issued, now, users, objects, slots, pings, inflight>>
    /\ \E pingId \in PingChoices(performerId) :
         IF ConfirmStartResponse(k, slotId, qrToken, pingId) = Ok
         THEN \E id \in Matching(target) :
                bookings' = [bookings EXCEPT ![id] =
                    [@ EXCEPT !.status = "started",
                              !.startsAt = now,
                              !.endsAt = now,
                              !.startConfirmedAt = now,
                              !.startConfirmedById = seniorId,
                              !.startLat = pings[pingId].lat,
                              !.startLng = pings[pingId].lng]]
         ELSE UNCHANGED bookings

ConfirmStart(k, slotId, qrToken) ==
    LET seniorId == getUserIdFromSession(k)
        performerId == PerformerByQr(qrToken)
        target(b) == ConfirmStartTarget(performerId, slotId, b)
    IN
    /\ sessions' = SessionsAfterRead(k)
    /\ UNCHANGED <<oAuthState, issued, now, users, objects, slots, pings, inflight>>
    /\ \E pingId \in PingChoices(performerId) :
         IF ConfirmStartResponse(k, slotId, qrToken, pingId) = Ok
         THEN \E id \in Matching(target) :
                bookings' = [bookings EXCEPT ![id] =
                    [@ EXCEPT !.status = "started",
                              !.startsAt = now,
                              !.startConfirmedAt = now,
                              !.startConfirmedById = seniorId,
                              !.startLat = pings[pingId].lat,
                              !.startLng = pings[pingId].lng]]
         ELSE UNCHANGED bookings

\* faulty variant of ConfirmEndTarget: the lookup forgets the performer
ConfirmEndTarget_AnyPerformer(performerId, slotId, b) ==
    /\ b.slotId = slotId
    /\ b.status \in {"started", "booked", "checkin_requested"}
    /\ b.endConfirmedAt = NONE

\* the filter of the booking lookup of confirm-end
ConfirmEndTarget(performerId, slotId, b) ==
    /\ b.slotId = slotId
    /\ b.userId = performerId
    /\ b.status \in {"started", "booked", "checkin_requested"}
    /\ b.endConfirmedAt = NONE

\* faulty variant of ConfirmEndResponse: the deadline itself is too late
ConfirmEndResponse_DeadlineExclusive(k, slotId, qrToken, pingId) ==
    LET seniorId == getUserIdFromSession(k)
        performerId == PerformerByQr(qrToken)
        target(b) == ConfirmEndTarget(performerId, slotId, b)
    IN
    IF seniorId = NULL THEN Response(401, "Unauthorized")
    ELSE IF performerId = NULL THEN Response(404, "Performer not found by qrToken")
    ELSE IF Matching(target) = {} THEN Response(404, "Booking not found")
    ELSE IF slots[slotId].createdById # seniorId
         THEN Response(403, "Only slot creator can confirm")
    ELSE IF now >= slots[slotId].endTime + END_DEADLINE_MS
         THEN Response(400, "too late to confirm end")
    ELSE IF pingId = 0 THEN Response(400, "no fresh geo ping from performer")
    ELSE IF TooFar(slots[slotId], pings[pingId].lat, pings[pingId].lng)
         THEN TooFarResponse(slots[slotId], pings[pingId].lat, pings[pingId].lng)
    ELSE Ok

ConfirmEndResponse(k, slotId, qrToken, pingId) ==
    LET seniorId == getUserIdFromSession(k)
        performerId == PerformerByQr(qrToken)
        target(b) == ConfirmEndTarget(performerId, slotId, b)
    IN
    IF seniorId = NULL THEN Response(401, "Unauthorized")
    ELSE IF performerId = NULL THEN Response(404, "Performer not found by qrToken")
    ELSE IF Matching(target) = {} THEN Response(404, "Booking not found")
    ELSE IF slots[slotId].createdById # seniorId
         THEN Response(403, "Only slot creator can confirm")
    ELSE IF now > slots[slotId].endTime + END_DEADLINE_MS
         THEN Response(400, "too late to confirm end")
    ELSE IF pingId = 0 THEN Response(400, "no fresh geo ping from performer")
    ELSE IF TooFar(slots[slotId], pings[pingId].lat, pings[pingId].lng)
         THEN TooFarResponse(slots[slotId], pings[pingId].lat, pings[pingId].lng)
    ELSE Ok

\* faulty variant of ConfirmEnd: the update also re-stamps the start
ConfirmEnd_SetsStart(k, slotId, qrToken) ==
    LET seniorId == getUserIdFromSession(k)
        performerId == PerformerByQr(qrToken)
        target(b) == ConfirmEndTarget(performerId, slotId, b)
    IN
    /\ sessions' = SessionsAfterRead(k)
    /\ UNCHANGED <<oAuthState, issued, now, users, objects, slots, pings, inflight>>
    /\ \E pingId \in PingChoices(performerId) :
         IF ConfirmEndResponse(k, slotId, qrToken, pingId) = Ok
         THEN \E id \in Matching(target) :
                bookings' = [bookings EXCEPT ![id] =
                    [@ EXCEPT !.status = "ended",
                              !.startsAt = now,
                              !.endsAt = now,
                              !.endConfirmedAt = now,
                              !.endConfirmedById = seniorId,
                              !.endLat = pings[pingId].lat,
                              !.endLng = pings[pingId].lng]]
         ELSE UNCHANGED bookings

\* faulty variant of ConfirmEnd: the update forgets the status
ConfirmEnd_KeepsStatus(k, slotId, qrToken) ==
    LET seniorId == getUserIdFromSession(k)
        performerId == PerformerByQr(qrToken)
        target(b) == ConfirmEndTarget(performerId, slotId, b)
    IN
    /\ sessions' = SessionsAfterRead(k)
    /\ UNCHANGED <<oAuthState, issued, now, users, objects, slots, pings, inflight>>
    /\ \E pingId \in PingChoices(performerId) :
         IF ConfirmEndResponse(k, slotId, qrToken, pingId) = Ok
         THEN \E id \in Matching(target) :
                bookings' = [bookings EXCEPT ![id] =
                    [@ EXCEPT !.endsAt = now,
                              !.endConfirmedAt = now,
                              !.endConfirmedById = seniorId,
                              !.endLat = pings[pingId].lat,
                              !.endLng = pings[pingId].lng]]
         ELSE UNCHANGED bookings

ConfirmEnd(k, slotId, qrToken) ==
    LET seniorId == getUserIdFromSession(k)
        performerId == PerformerByQr(qrToken)
        target(b) == ConfirmEndTarget(performerId, slotId, b)
    IN
    /\ sessions' = SessionsAfterRead(k)
    /\ UNCHANGED <<oAuthState, issued, now, users, objects, slots, pings, inflight>>
    /\ \E pingId \in PingChoices(performerId) :
         IF ConfirmEndResponse(k, slotId, qrToken, pingId) = Ok
         THEN \E id \in Matching(target) :
                bookings' = [bookings EXCEPT ![id] =
                    [@ EXCEPT !.status = "ended",
                              !.endsAt = now,
                              !.endConfirmedAt = now,
                              !.endConfirmedById = seniorId,
                              !.endLat = pings[pingId].lat,
                              !.endLng = pings[pingId].lng]]
         ELSE UNCHANGED bookings

-----------------------------------------------------------------------------
(* POST /bookings as two steps: the handler is suspended between its last   *)
(* read (the "existing" lookup) and its write (booking.create), and other   *)
(* handlers run in between                                                  *)

CreateBegin(k, slotId) ==
    /\ sessions' = SessionsAfterRead(k)
    /\ UNCHANGED <<oAuthState, issued, now, users, objects, slots, bookings, pings>>
    /\ IF CreateResponse(k, slotId) = Ok
       THEN /\ Len(inflight) < MaxInflight
            /\ inflight' = Append(inflight,
                   [op |-> "create", userId |-> getUserIdFromSession(k), slotId |-> slotId])
       ELSE UNCHANGED inflight

CreateCommit(i) ==
    /\ inflight[i].op = "create"
    /\ Len(bookings) < MaxBookings
    /\ bookings' = Append(bookings, NewBooking(inflight[i].userId, inflight[i].slotId))
    /\ inflight' = Remove(inflight, i)
    /\ UNCHANGED <<oAuthState, issued, now, sessions, users, objects, slots, pings>>

-----------------------------------------------------------------------------
(* confirm-start and confirm-end as two steps: the handler has passed all   *)
(* its gates and is suspended before booking.update; it holds the booking   *)
(* id it located, the `now` it took and the ping it selected                *)

Confirming(op, id, seniorId, pingId) ==
    [op |-> op, id |-> id, seniorId |-> seniorId, at |-> now,
     lat |-> pings[pingId].lat, lng |-> pings[pingId].lng]

ConfirmStartBegin(k, slotId, qrToken) ==
    LET seniorId == getUserIdFromSession(k)
        performerId == PerformerByQr(qrToken)
        target(b) == ConfirmStartTarget(performerId, slotId, b)
    IN
    /\ sessions' = SessionsAfterRead(k)
    /\ UNCHANGED <<oAuthState, issued, now, users, objects, slots, bookings, pings>>
    /\ \E pingId \in PingChoices(performerId) :
         IF ConfirmStartResponse(k, slotId, qrToken, pingId) = Ok
         THEN /\ Len(inflight) < MaxInflight
              /\ \E id \in Matching(target) :
                     inflight' = Append(inflight,
                         Confirming("confirm-start", id, seniorId, pingId))
         ELSE UNCHANGED inflight

ConfirmStartCommit(i) ==
    /\ inflight[i].op = "confirm-start"
    /\ bookings' = [bookings EXCEPT ![inflight[i].id] =
           [@ EXCEPT !.status = "started",
                     !.startsAt = inflight[i].at,
                     !.startConfirmedAt = inflight[i].at,
                     !.startConfirmedById = inflight[i].seniorId,
                     !.startLat = inflight[i].lat,
                     !.startLng = inflight[i].lng]]
    /\ inflight' = Remove(inflight, i)
    /\ UNCHANGED <<oAuthState, issued, now, sessions, users, objects, slots, pings>>

ConfirmEndBegin(k, slotId, qrToken) ==
    LET seniorId == getUserIdFromSession(k)
        performerId == PerformerByQr(qrToken)
        target(b) == ConfirmEndTarget(performerId, slotId, b)
    IN
    /\ sessions' = SessionsAfterRead(k)
    /\ UNCHANGED <<oAuthState, issued, now, users, objects, slots, bookings, pings>>
    /\ \E pingId \in PingChoices(performerId) :
         IF ConfirmEndResponse(k, slotId, qrToken, pingId) = Ok
         THEN /\ Len(inflight) < MaxInflight
              /\ \E id \in Matching(target) :
                     inflight' = Append(inflight,
                         Confirming("confirm-end", id, seniorId, pingId))
         ELSE UNCHANGED inflight

ConfirmEndCommit(i) ==
    /\ inflight[i].op = "confirm-end"
    /\ bookings' = [bookings EXCEPT ![inflight[i].id] =
           [@ EXCEPT !.status = "ended",
                     !.endsAt = inflight[i].at,
                     !.endConfirmedAt = inflight[i].at,
                     !.endConfirmedById = inflight[i].seniorId,
                     !.endLat = inflight[i].lat,
                     !.endLng = inflight[i].lng]]
    /\ inflight' = Remove(inflight, i)
    /\ UNCHANGED <<oAuthState, issued, now, sessions, users, objects, slots, pings>>

-----------------------------------------------------------------------------
(* Spec: every handler runs without interruption.  Check-in requests carry *)
(* the position of the object o1.                                           *)

Next ==
    \/ Tick(Instants)
    \/ \E k \in Cookies, s \in SlotIds : CreateBooking(k, s)
    \/ \E k \in Cookies, s \in SlotIds : CancelBooking(k, s)
    \/ \E k \in Cookies, s \in SlotIds : RequestCheckin(k, s, 0, 37)
    \/ \E k \in Cookies : RecordPing(k, 0, 37)
    \/ \E k \in Cookies, s \in SlotIds, t \in QrTokens : ConfirmStart(k, s, t)
    \/ \E k \in Cookies, s \in SlotIds, t \in QrTokens : ConfirmEnd(k, s, t)
    \/ \E k \in Cookies : GetState(k)

Spec == Init /\ [][Next]_vars

-----------------------------------------------------------------------------
(* SpecConc: concurrent POST /bookings and POST /bookings/cancel requests   *)

NextConc ==
    \/ \E k \in Cookies, s \in SlotIds : CreateBegin(k, s)
    \/ \E i \in 1..Len(inflight) : CreateCommit(i)
    \/ \E k \in Cookies, s \in SlotIds : CancelBooking(k, s)

SpecConc == Init /\ [][NextConc]_vars

-----------------------------------------------------------------------------
(* SpecRace: concurrent confirm-start and confirm-end scans of the bookings *)
(* the performer p made and checked in; a minute may pass between two scans *)

RaceInstants == { HM(18, 10), HM(18, 11) }

NextRace ==
    \/ Tick(RaceInstants)
    \/ \E s \in SlotIds : CreateBooking("kp", s)
    \/ \E s \in SlotIds : RequestCheckin("kp", s, 0, 37)
    \/ \E k \in Cookies, s \in SlotIds, t \in QrTokens : ConfirmStartBegin(k, s, t)
    \/ \E i \in 1..Len(inflight) : ConfirmStartCommit(i)
    \/ \E k \in Cookies, s \in SlotIds, t \in QrTokens : ConfirmEndBegin(k, s, t)
    \/ \E i \in 1..Len(inflight) : ConfirmEndCommit(i)

SpecRace == Init /\ [][NextRace]_vars

-----------------------------------------------------------------------------
(* SpecSeed: the handlers of Spec on a store whose slot s2 was inserted by  *)
(* the seed script, which sets no createdById                               *)

InitSeed ==
    /\ now = 0
    /\ sessions = [h \in {"hc", "hp"} |->
                      [userId |-> IF h = "hc" THEN "c" ELSE "p",
                       expiresAt |-> SessionTtlMs]]
    /\ users = [u \in Users |->
                   [performerQrToken |-> IF u = "c" THEN "tc" ELSE "tp",
                    sessionHash |-> NULL]]
    /\ objects = [o \in ObjectIds |->
                     IF o = "o1" THEN [lat |-> 0, lng |-> 37]
                                 ELSE [lat |-> NONE, lng |-> NONE]]
    /\ slots = [InitSlots EXCEPT !["s2"].createdById = NULL]
    /\ bookings = <<>>
    /\ pings = <<>>
    /\ inflight = <<>>
    /\ issued = {"kc", "kp", "tc", "tp"}
    /\ oAuthState = [q \in {} |-> [provider |-> NULL, expiresAt |-> NONE]]

SpecSeed == InitSeed /\ [][Next]_vars

-----------------------------------------------------------------------------
(* SpecTime: the performer p books and checks in, the creator c scans p's   *)
(* token, while the clock passes the edges of the start window of s1        *)
(* (10:00 - 15 min) and of its end deadline (18:00 + 4 h)                   *)

TimeInstants ==
    { HM(9, 44), HM(9, 45), HM(9, 46), HM(21, 59), HM(22, 0), HM(22, 1) }

NextTime ==
    \/ Tick(TimeInstants)
    \/ \E s \in SlotIds : CreateBooking("kp", s)
    \/ \E s \in SlotIds : RequestCheckin("kp", s, 0, 37)
    \/ \E s \in SlotIds : ConfirmStart("kc", s, "tp")
    \/ \E s \in SlotIds : ConfirmEnd("kc", s, "tp")

SpecTime == Init /\ [][NextTime]_vars

-----------------------------------------------------------------------------
(* SpecFresh: p books s1, c books s2, both check in, c scans p's token,     *)
(* while the clock passes the edges of the freshness window of a ping taken *)
(* at 18:10                                                                 *)

FreshInstants ==
    { HM(18, 10), HM(18, 10) + 119 * 1000, HM(18, 10) + 120 * 1000, HM(18, 10) + 121 * 1000 }

NextFresh ==
    \/ Tick(FreshInstants)
    \/ \E s \in {"s0", "s1"} : CreateBooking("kp", s)
    \/ CreateBooking("kc", "s2")
    \/ \E s \in SlotIds : RequestCheckin("kp", s, 0, 37)
    \/ RequestCheckin("kc", "s2", 0, 37)
    \/ \E s \in SlotIds : ConfirmStart("kc", s, "tp")
    \/ \E s \in SlotIds : ConfirmEnd("kc", s, "tp")

SpecFresh == Init /\ [][NextFresh]_vars

-----------------------------------------------------------------------------
(* SpecGeo: the performer p books and checks in, for s1 at the object o1,   *)
(* at the edge of its geofence and beyond it, for s2 (whose object has no   *)
(* coordinates) 200 m and 201 m from o1, now and 119 seconds later, and the *)
(* creator c scans p's token                                                *)

GeoInstants == { HM(18, 10), HM(18, 10) + 119 * 1000 }

\* lat of a check-in request: at o1, 200 m from it, 201 m from it
GeoLats == { 0, 200, 201 }

NextGeo ==
    \/ Tick(GeoInstants)
    \/ \E s \in SlotIds : CreateBooking("kp", s)
    \/ \E s \in {"s0", "s1"}, lat \in GeoLats : RequestCheckin("kp", s, lat, 37)
    \/ \E lat \in {200, 201} : RequestCheckin("kp", "s2", lat, 37)
    \/ \E s \in SlotIds : ConfirmStart("kc", s, "tp")
    \/ \E s \in SlotIds : ConfirmEnd("kc", s, "tp")

SpecGeo == Init /\ [][NextGeo]_vars

-----------------------------------------------------------------------------
(* Sessions at their expiry: the sessions of c and p, created at 0, expire  *)
(* at SessionTtlMs; a user may log in again and so hold a later session     *)

AuthInstants == { HM(18, 10), SessionTtlMs - 1, SessionTtlMs, SessionTtlMs + 1 }

NextAuth ==
    \/ Tick(AuthInstants)
    \/ \E u \in Users : Login(u)
    \/ \E k \in Cookies : AuthMe(k)
    \/ \E k \in Cookies : Logout(k)
    \/ \E k \in Cookies : GetState(k)
    \/ \E k \in Cookies : GetList(k)
    \/ \E k \in Cookies : CreateBooking(k, "s1")
    \/ \E k \in Cookies : CancelBooking(k, "s1")
    \/ \E k \in Cookies : RequestCheckin(k, "s1", 0, 37)
    \/ \E k \in Cookies : ConfirmStart(k, "s1", "tp")
    \/ \E k \in Cookies : ConfirmEnd(k, "s1", "tp")

SpecAuth == Init /\ [][NextAuth]_vars

\* the same, with the session lookup suspended before its delete
NextSessionRace ==
    \/ Tick(AuthInstants \ {HM(18, 10)})
    \/ \E u \in Users : Login(u)
    \/ \E k \in Cookies : ResolveBegin(k)
    \/ \E i \in 1..Len(inflight) : ResolveCommit(i)

SpecSessionRace == Init /\ [][NextSessionRace]_vars

-----------------------------------------------------------------------------
(* One shift from booking to its end: p works slot s1 (10:00-18:00 at o1),  *)
(* c confirms; the requests arrive at 09:50 and at 18:10                    *)

E2EInstants == { HM(9, 50), HM(18, 10) }

NextE2E ==
    \/ Tick(E2EInstants)
    \/ \E s \in {"s1", "s2"} : CreateBooking("kp", s)
    \/ CancelBooking("kp", "s1")
    \/ RecordPing("kp", 0, 37)
    \/ \E s \in {"s1", "s2"} : RequestCheckin("kp", s, 0, 37)
    \/ ConfirmStart("kc", "s1", "tp")
    \/ ConfirmEnd("kc", "s1", "tp")

SpecE2E == Init /\ [][NextE2E]_vars

-----------------------------------------------------------------------------
(* Logins and the backfill of users stored before the performerQrToken      *)
(* column existed: c and p have no token and no session                     *)

InitLogin ==
    /\ now = 0
    /\ sessions = [h \in {} |-> [userId |-> NULL, expiresAt |-> NONE]]
    /\ users = [u \in Users |-> [performerQrToken |-> NULL, sessionHash |-> NULL]]
    /\ objects = [o \in ObjectIds |->
                     IF o = "o1" THEN [lat |-> 0, lng |-> 37]
                                 ELSE [lat |-> NONE, lng |-> NONE]]
    /\ slots = InitSlots
    /\ bookings = <<>>
    /\ pings = <<>>
    /\ inflight = <<>>
    /\ issued = {}
    /\ oAuthState = [q \in {} |-> [provider |-> NULL, expiresAt |-> NONE]]

NextLogin ==
    \/ \E u \in Users : LoginBegin(u)
    \/ \E key \in BackfillKeys : BackfillBegin(key)
    \/ \E i \in 1..Len(inflight) : EnsureCommit(i)
    \/ \E k \in Cookies : Logout(k)

SpecLogin == InitLogin /\ [][NextLogin]_vars

-----------------------------------------------------------------------------
(* Objects stored and edited: bodies with a coordinate missing, null, in    *)
(* range and out of range                                                   *)

LatInputs == { ABSENT, NONE, 0, 55, 91 }

LngInputs == { ABSENT, NONE, 37, 181 }

NewObjectIds == { "o3" }

NextObjects ==
    \/ \E k \in {"", "kc"}, id \in NewObjectIds, lat \in LatInputs, lng \in LngInputs :
          CreateObject(k, id, lat, lng)
    \/ \E k \in {"", "kc"}, id \in ObjectIds \cup NewObjectIds,
          lat \in LatInputs, lng \in LngInputs :
          PatchObject(k, id, lat, lng)

SpecObjects == Init /\ [][NextObjects]_vars

-----------------------------------------------------------------------------
(* Logins through the OAuth flows: states are handed out at 0 and later,    *)
(* and callbacks arrive before, at and after the expiry of a state          *)

OAuthInstants == { STATE_TTL_MS - 1, STATE_TTL_MS }

NextOAuth ==
    \/ Tick(OAuthInstants)
    \/ \E kind \in FlowKinds : StartFlow(kind)
    \/ \E kind \in FlowKinds, state \in OAuthStates, cookieState \in OAuthStates \cup {""},
          userId \in {"c", NULL} :
          Callback(kind, state, cookieState, userId)

SpecOAuth == InitLogin /\ [][NextOAuth]_vars

-----------------------------------------------------------------------------
(* POST /bookings/cancel and POST /slots/:id/start as two steps: each is    *)
(* suspended between its lookup of the booking and its update by id         *)

CancelBegin(k, slotId) ==
    LET userId == getUserIdFromSession(k)
        target(b) == CancelTarget(userId, slotId, b)
    IN
    /\ sessions' = SessionsAfterRead(k)
    /\ UNCHANGED <<oAuthState, issued, now, users, objects, slots, bookings, pings>>
    /\ IF CancelResponse(k, slotId) = Ok
       THEN /\ Len(inflight) < MaxInflight
            /\ \E id \in Matching(target) :
                   inflight' = Append(inflight, [op |-> "cancel", id |-> id])
       ELSE UNCHANGED inflight

CancelCommit(i) ==
    /\ inflight[i].op = "cancel"
    /\ bookings' = [bookings EXCEPT ![inflight[i].id].status = "cancelled"]
    /\ inflight' = Remove(inflight, i)
    /\ UNCHANGED <<oAuthState, issued, now, sessions, users, objects, slots, pings>>

CheckinBegin(k, slotId, lat, lng) ==
    LET userId == getUserIdFromSession(k)
        target(b) == CheckinTarget(userId, slotId, b)
    IN
    /\ sessions' = SessionsAfterRead(k)
    /\ UNCHANGED <<oAuthState, issued, now, users, objects, slots, bookings, pings>>
    /\ IF CheckinResponse(k, slotId, lat, lng) = Ok
       THEN /\ Len(inflight) < MaxInflight
            /\ \E id \in Matching(target) :
                   inflight' = Append(inflight,
                       [op |-> "checkin", id |-> id, userId |-> userId,
                        lat |-> lat, lng |-> lng])
       ELSE UNCHANGED inflight

CheckinCommit(i) ==
    /\ inflight[i].op = "checkin"
    /\ pings' = Append(pings, NewPing(inflight[i].userId, inflight[i].lat, inflight[i].lng))
    /\ bookings' = [bookings EXCEPT ![inflight[i].id].status = "checkin_requested"]
    /\ inflight' = Remove(inflight, i)
    /\ UNCHANGED <<oAuthState, issued, now, sessions, users, objects, slots>>

\* p books s1 and then cancels or checks in while c scans p's token
NextCancelRace ==
    \/ Tick(Instants)
    \/ CreateBooking("kp", "s1")
    \/ CancelBegin("kp", "s1")
    \/ \E i \in 1..Len(inflight) : CancelCommit(i)
    \/ CheckinBegin("kp", "s1", 0, 37)
    \/ \E i \in 1..Len(inflight) : CheckinCommit(i)
    \/ ConfirmStartBegin("kc", "s1", "tp")
    \/ \E i \in 1..Len(inflight) : ConfirmStartCommit(i)
    \/ ConfirmEndBegin("kc", "s1", "tp")
    \/ \E i \in 1..Len(inflight) : ConfirmEndCommit(i)

SpecCancelRace == Init /\ [][NextCancelRace]_vars

-----------------------------------------------------------------------------
(* Vocabulary of the properties *)

\* two planned intervals intersect (half-open)
Overlap(a, b) == a.startTime < b.endTime /\ a.endTime > b.startTime

\* the bookings of a (user, slot) pair in one of the statuses
BookingsOf(userId, slotId, statuses) ==
    { i \in BookingIds : /\ bookings[i].userId = userId
                         /\ bookings[i].slotId = slotId
                         /\ bookings[i].status \in statuses }

HasBooked(userId, slotId) == BookingsOf(userId, slotId, {"booked"}) # {}

\* the user has a `booked` booking on the slot or on a slot overlapping it
HasBookedOverlapping(userId, slotId) ==
    \E i \in BookingIds :
        /\ bookings[i].userId = userId
        /\ bookings[i].status = "booked"
        /\ \/ bookings[i].slotId = slotId
           \/ Overlap(slots[bookings[i].slotId], slots[slotId])

\* the rows a transition leaves as they were and the rows it adds
RowsKept == \A i \in BookingIds : i <= Len(bookings') /\ bookings'[i] = bookings[i]

Unconfirmed(b) ==
    /\ b.startsAt = NONE /\ b.endsAt = NONE
    /\ b.startConfirmedAt = NONE /\ b.endConfirmedAt = NONE
    /\ b.startConfirmedById = NULL /\ b.endConfirmedById = NULL
    /\ b.startLat = NONE /\ b.startLng = NONE /\ b.endLat = NONE /\ b.endLng = NONE

-----------------------------------------------------------------------------
(* C1: no double-booking.  While a user holds a `booked` booking on a slot, *)
(* a create-booking of that user for another slot whose planned interval    *)
(* overlaps it is answered "Time conflict" and inserts no row.              *)

C1_NoDoubleBooking ==
    [][\A k \in Cookies, s1 \in DOMAIN slots, s2 \in DOMAIN slots :
         ( /\ getUserIdFromSession(k) # NULL
           /\ s1 # s2
           /\ Overlap(slots[s1], slots[s2])
           /\ HasBooked(getUserIdFromSession(k), s1)
           /\ CreateBooking(k, s2) )
         => /\ CreateResponse(k, s2).error = "Time conflict"
            /\ bookings' = bookings]_vars

-----------------------------------------------------------------------------
(* C2: under any interleaving of concurrent create-booking calls, no user   *)
(* has two `booked` bookings whose slots overlap in time.                   *)

C2_NoOverlappingBooked ==
    \A i \in BookingIds, j \in BookingIds :
        ( /\ i # j
          /\ bookings[i].userId = bookings[j].userId
          /\ bookings[i].status = "booked"
          /\ bookings[j].status = "booked" )
        => ~Overlap(slots[bookings[i].slotId], slots[bookings[j].slotId])

-----------------------------------------------------------------------------
(* C3: every (user, slot) pair has at most one booking that is not          *)
(* `cancelled`.                                                             *)

C3_OneActivePerUserSlot ==
    \A i \in BookingIds, j \in BookingIds :
        ( /\ i # j
          /\ bookings[i].userId = bookings[j].userId
          /\ bookings[i].slotId = bookings[j].slotId )
        => \/ bookings[i].status = "cancelled"
           \/ bookings[j].status = "cancelled"

-----------------------------------------------------------------------------
(* C4: create-booking de-duplicates.  While a `booked` booking of (U, S)    *)
(* exists, create-booking(U, S) is answered with the rejection "Already     *)
(* booked" and the booking rows stay as they are.                           *)

C4_DuplicateRejected ==
    /\ [](\A k \in Cookies, s \in SlotIds :
            ( /\ getUserIdFromSession(k) # NULL
              /\ HasBooked(getUserIdFromSession(k), s) )
            => CreateResponse(k, s) = Response(400, "Already booked"))
    /\ [][\A k \in Cookies, s \in SlotIds :
            ( /\ getUserIdFromSession(k) # NULL
              /\ HasBooked(getUserIdFromSession(k), s)
              /\ CreateBooking(k, s) )
            => bookings' = bookings]_vars

\* a user holds a `booked` booking and the table has room for a second row
C4_Witness ==
    \E k \in Cookies, s \in SlotIds :
        /\ getUserIdFromSession(k) # NULL
        /\ HasBooked(getUserIdFromSession(k), s)
        /\ Len(bookings) < MaxBookings

-----------------------------------------------------------------------------
(* C5: a cancelled booking never blocks a later create.  When U has a       *)
(* `cancelled` booking on S1 and no `booked` booking on S2 or on a slot     *)
(* overlapping S2, create-booking(U, S2) succeeds, for S2 = S1 and for any  *)
(* S2 overlapping S1.                                                       *)

C5_CancelledNeverBlocks ==
    \A k \in Cookies, s1 \in DOMAIN slots, s2 \in DOMAIN slots :
        ( /\ getUserIdFromSession(k) # NULL
          /\ BookingsOf(getUserIdFromSession(k), s1, {"cancelled"}) # {}
          /\ s2 = s1 \/ Overlap(slots[s1], slots[s2])
          /\ ~HasBookedOverlapping(getUserIdFromSession(k), s2) )
        => CreateResponse(k, s2) = Ok

\* a booking was cancelled and the same user then booked the same slot or
\* one overlapping it
C5_Witness ==
    \E i \in BookingIds, j \in BookingIds :
        /\ i < j
        /\ bookings[i].userId = bookings[j].userId
        /\ bookings[i].status = "cancelled"
        /\ bookings[j].status = "booked"
        /\ Overlap(slots[bookings[i].slotId], slots[bookings[j].slotId])

-----------------------------------------------------------------------------
(* C6: a successful create-booking appends exactly one Booking row, with    *)
(* the session's user, the requested slot, status `booked` and no           *)
(* confirmation field set; every other Booking row and every Slot,          *)
(* UserGeoPing and Session row stays as it is.                              *)

C6_CreateEffect ==
    [][\A k \in Cookies, s \in SlotIds :
         (CreateResponse(k, s) = Ok /\ CreateBooking(k, s))
         => /\ Len(bookings') = Len(bookings) + 1
            /\ RowsKept
            /\ bookings'[Len(bookings')].userId = getUserIdFromSession(k)
            /\ bookings'[Len(bookings')].slotId = s
            /\ bookings'[Len(bookings')].status = "booked"
            /\ Unconfirmed(bookings'[Len(bookings')])
            /\ UNCHANGED <<slots, pings, sessions>>]_vars

\* the last create filled the table, next to a row that already had moved on
C6_Witness ==
    /\ Len(bookings) = MaxBookings
    /\ bookings[Len(bookings)].status = "booked"
    /\ Unconfirmed(bookings[Len(bookings)])
    /\ bookings[1].status # "booked"

-----------------------------------------------------------------------------
(* C7: create-booking for a slotId of no Slot row is answered 404 "Slot not *)
(* found" and leaves the bookings unchanged.                                *)

C7_SlotNotFound ==
    /\ [](\A k \in Cookies, s \in SlotIds :
            (getUserIdFromSession(k) # NULL /\ s \notin DOMAIN slots)
            => CreateResponse(k, s) = Response(404, "Slot not found"))
    /\ [][\A k \in Cookies, s \in SlotIds :
            (s \notin DOMAIN slots /\ CreateBooking(k, s))
            => bookings' = bookings]_vars

\* a logged-in user with bookings asks for the slot id that has no row
C7_Witness ==
    \E k \in Cookies :
        /\ getUserIdFromSession(k) # NULL
        /\ "s0" \notin DOMAIN slots
        /\ CreateResponse(k, "s0").code = 404
        /\ BookingIds # {}

-----------------------------------------------------------------------------
(* C8: cancel-booking(U, S) succeeds only when a `booked` booking of        *)
(* exactly (U, S) exists; on success that one booking becomes `cancelled`   *)
(* and no other field and no other booking changes.                         *)

C8_CancelEffect ==
    /\ [](\A k \in Cookies, s \in SlotIds :
            CancelResponse(k, s) = Ok
            => /\ getUserIdFromSession(k) # NULL
               /\ HasBooked(getUserIdFromSession(k), s))
    /\ [][\A k \in Cookies, s \in SlotIds :
            (CancelResponse(k, s) = Ok /\ CancelBooking(k, s))
            => \E id \in BookingsOf(getUserIdFromSession(k), s, {"booked"}) :
                 bookings' = [bookings EXCEPT ![id].status = "cancelled"]]_vars

\* a booking was cancelled while the same user's booking of the other slot
\* stayed `booked`
C8_Witness ==
    \E i \in BookingIds, j \in BookingIds :
        /\ bookings[i].userId = bookings[j].userId
        /\ bookings[i].slotId # bookings[j].slotId
        /\ bookings[i].status = "cancelled"
        /\ bookings[j].status = "booked"

-----------------------------------------------------------------------------
(* C9: cancel-booking(U, S) without a `booked` booking of (U, S), the       *)
(* booking being cancelled already or never made, is answered 404 "Active   *)
(* booking not found" and changes no booking; the same cancel repeated      *)
(* directly after a successful one is answered so.                          *)

-----------------------------------------------------------------------------
(* C10: `cancelled` and `ended` are terminal.  No step of create, cancel,   *)
(* check-in request, confirm-start or confirm-end changes a field of a      *)
(* booking whose status is `cancelled` or `ended`.                          *)

-----------------------------------------------------------------------------
(* C11: every status change of a booking moves forward along the chain      *)
(* booked -> checkin_requested -> started -> ended, or from `booked` to     *)
(* `cancelled`; no step moves a booking back, and `cancelled` is entered    *)
(* only from `booked`.                                                      *)

\* the position of a status in the chain
ChainRank(status) ==
    CASE status = "booked"            -> 0
      [] status = "checkin_requested" -> 1
      [] status = "started"           -> 2
      [] status = "ended"             -> 3
      [] OTHER                        -> 4

-----------------------------------------------------------------------------
(* C12: sequential at-most-once start confirmation.  Once a booking of      *)
(* (slot, performer) has its start confirmed, every confirm-start for that  *)
(* (slot, performer) is answered 404 "Booking not found" and leaves the     *)
(* booking's status and start fields as they are.                           *)

StartConfirmed(performerId, slotId) ==
    { i \in BookingIds : /\ bookings[i].userId = performerId
                         /\ bookings[i].slotId = slotId
                         /\ bookings[i].startConfirmedAt # NONE }

C12_StartConfirmedOnce ==
    /\ [](\A k \in Cookies, s \in DOMAIN slots, t \in QrTokens :
            ( /\ getUserIdFromSession(k) # NULL
              /\ PerformerByQr(t) # NULL
              /\ StartConfirmed(PerformerByQr(t), s) # {} )
            => \A pingId \in PingChoices(PerformerByQr(t)) :
                 ConfirmStartResponse(k, s, t, pingId) = Response(404, "Booking not found"))
    /\ [][\A k \in Cookies, s \in DOMAIN slots, t \in QrTokens :
            ConfirmStart(k, s, t)
            => \A i \in StartConfirmed(PerformerByQr(t), s) : bookings'[i] = bookings[i]]_vars

-----------------------------------------------------------------------------
(* C13: concurrent at-most-once confirmation.  Of the confirm-start (or     *)
(* confirm-end) handlers that interleave their read of a booking and their  *)
(* update, only one performs the transition: no handler writes a start      *)
(* (end) confirmation onto a booking whose startConfirmedAt (endConfirmedAt)*)
(* is set already.                                                          *)

C13_ConfirmedOnceConcurrently ==
    [][\A i \in 1..Len(inflight) :
         /\ ConfirmStartCommit(i)
            => bookings[inflight[i].id].startConfirmedAt = NONE
         /\ ConfirmEndCommit(i)
            => bookings[inflight[i].id].endConfirmedAt = NONE]_vars

-----------------------------------------------------------------------------
(* C14: only the slot's creator can confirm.  A confirm-start or            *)
(* confirm-end of a logged-in user who is not the slot's createdById, a     *)
(* null createdById included, never succeeds, is answered 403 "Only slot    *)
(* creator can confirm" once the performer and the booking are located, and *)
(* changes no booking; every startConfirmedById and endConfirmedById        *)
(* written is the createdById of the booking's slot.                        *)

NotCreator(k, slotId) ==
    /\ getUserIdFromSession(k) # NULL
    /\ getUserIdFromSession(k) # slots[slotId].createdById

Forbidden == Response(403, "Only slot creator can confirm")

C14_OnlyCreatorConfirms ==
    /\ [](\A k \in Cookies, s \in DOMAIN slots, t \in QrTokens :
            NotCreator(k, s)
            => \A pingId \in PingChoices(PerformerByQr(t)) :
                 LET target(b) == ConfirmStartTarget(PerformerByQr(t), s, b)
                     targetEnd(b) == ConfirmEndTarget(PerformerByQr(t), s, b)
                 IN
                 /\ ConfirmStartResponse(k, s, t, pingId) # Ok
                 /\ ConfirmEndResponse(k, s, t, pingId) # Ok
                 /\ Matching(target) # {}
                    => ConfirmStartResponse(k, s, t, pingId) = Forbidden
                 /\ Matching(targetEnd) # {}
                    => ConfirmEndResponse(k, s, t, pingId) = Forbidden)
    /\ [](\A i \in BookingIds :
            /\ bookings[i].startConfirmedById # NULL
               => bookings[i].startConfirmedById = slots[bookings[i].slotId].createdById
            /\ bookings[i].endConfirmedById # NULL
               => bookings[i].endConfirmedById = slots[bookings[i].slotId].createdById)
    /\ [][\A k \in Cookies, s \in DOMAIN slots, t \in QrTokens :
            (NotCreator(k, s) /\ (ConfirmStart(k, s, t) \/ ConfirmEnd(k, s, t)))
            => bookings' = bookings]_vars

\* a user scans a performer whose checked-in booking, on the seeded slot
\* without creator, passes every other gate, while a booking of the created
\* slot was confirmed
C14_Witness ==
    \E k \in Cookies, i \in BookingIds, j \in BookingIds :
        /\ slots[bookings[i].slotId].createdById = NULL
        /\ NotCreator(k, bookings[i].slotId)
        /\ bookings[i].status = "checkin_requested"
        /\ FreshPings(bookings[i].userId) # {}
        /\ bookings[j].startConfirmedById # NULL

-----------------------------------------------------------------------------
(* The gates of a confirmation that precede its time gate: the senior is    *)
(* logged in, the token names a performer, the booking is located and the   *)
(* senior created the slot                                                  *)

StartLocated(k, slotId, qrToken) ==
    LET target(b) == ConfirmStartTarget(PerformerByQr(qrToken), slotId, b) IN
    /\ getUserIdFromSession(k) # NULL
    /\ PerformerByQr(qrToken) # NULL
    /\ Matching(target) # {}
    /\ slots[slotId].createdById = getUserIdFromSession(k)

EndLocated(k, slotId, qrToken) ==
    LET target(b) == ConfirmEndTarget(PerformerByQr(qrToken), slotId, b) IN
    /\ getUserIdFromSession(k) # NULL
    /\ PerformerByQr(qrToken) # NULL
    /\ Matching(target) # {}
    /\ slots[slotId].createdById = getUserIdFromSession(k)

\* the selected ping exists and passes the geofence of the slot's object
PingInRange(slotId, pingId) ==
    /\ pingId # 0
    /\ ~TooFar(slots[slotId], pings[pingId].lat, pings[pingId].lng)

-----------------------------------------------------------------------------
(* C15: start temporal gate.  A confirm-start that located its booking is   *)
(* answered "too early" exactly when now < slot.startTime - 15 minutes, and *)
(* then changes nothing; from that instant on, however late, it succeeds    *)
(* whenever the ping gates are passed.                                      *)

C15_StartWindow ==
    /\ [](\A k \in Cookies, s \in DOMAIN slots, t \in QrTokens :
            StartLocated(k, s, t)
            => \A pingId \in PingChoices(PerformerByQr(t)) :
                 /\ ConfirmStartResponse(k, s, t, pingId) = Response(400, "too early")
                    <=> now < slots[s].startTime - 15 * 60 * 1000
                 /\ ( /\ now >= slots[s].startTime - 15 * 60 * 1000
                      /\ PingInRange(s, pingId) )
                    => ConfirmStartResponse(k, s, t, pingId) = Ok)
    /\ [][\A k \in Cookies, s \in DOMAIN slots, t \in QrTokens :
            ( /\ StartLocated(k, s, t)
              /\ now < slots[s].startTime - 15 * 60 * 1000
              /\ ConfirmStart(k, s, t) )
            => bookings' = bookings]_vars

\* one start was confirmed exactly 15 minutes before the planned start,
\* another after the planned end of its slot
C15_Witness ==
    \E i \in BookingIds, j \in BookingIds :
        /\ bookings[i].startConfirmedAt = slots[bookings[i].slotId].startTime - 15 * 60 * 1000
        /\ bookings[j].startConfirmedAt > slots[bookings[j].slotId].endTime

-----------------------------------------------------------------------------
(* C16: end temporal gate.  A confirm-end that located its booking is       *)
(* answered "too late to confirm end" exactly when now > slot.endTime +     *)
(* 4 hours, and then changes nothing; up to that instant, before the        *)
(* planned end included, it succeeds whenever the ping gates are passed.    *)

C16_EndDeadline ==
    /\ [](\A k \in Cookies, s \in DOMAIN slots, t \in QrTokens :
            EndLocated(k, s, t)
            => \A pingId \in PingChoices(PerformerByQr(t)) :
                 /\ ConfirmEndResponse(k, s, t, pingId) = Response(400, "too late to confirm end")
                    <=> now > slots[s].endTime + 4 * 60 * 60 * 1000
                 /\ ( /\ now <= slots[s].endTime + 4 * 60 * 60 * 1000
                      /\ PingInRange(s, pingId) )
                    => ConfirmEndResponse(k, s, t, pingId) = Ok)
    /\ [][\A k \in Cookies, s \in DOMAIN slots, t \in QrTokens :
            ( /\ EndLocated(k, s, t)
              /\ now > slots[s].endTime + 4 * 60 * 60 * 1000
              /\ ConfirmEnd(k, s, t) )
            => bookings' = bookings]_vars

\* one end was confirmed before the planned end of its slot, another exactly
\* 4 hours after it, and now the deadline of that slot has passed
C16_Witness ==
    \E i \in BookingIds, j \in BookingIds :
        /\ bookings[i].endConfirmedAt # NONE
        /\ bookings[i].endConfirmedAt < slots[bookings[i].slotId].endTime
        /\ bookings[j].endConfirmedAt = slots[bookings[j].slotId].endTime + 4 * 60 * 60 * 1000
        /\ now > bookings[j].endConfirmedAt

-----------------------------------------------------------------------------
(* C17: freshness gate.  A confirm-start or confirm-end that passed its     *)
(* time gate is answered "no fresh geo ping from performer", and changes    *)
(* nothing, exactly when the performer named by the token has no            *)
(* UserGeoPing with createdAt >= now - 120 seconds; it succeeds only with   *)
(* such a ping, and the pings of other users do not count.                  *)

HasPingWithin120s(userId) ==
    \E j \in PingIds : /\ pings[j].userId = userId
                       /\ pings[j].createdAt >= now - 120 * 1000

NoFreshPing == Response(400, "no fresh geo ping from performer")

StartTimeOk(slotId) == now >= slots[slotId].startTime - 15 * 60 * 1000

EndTimeOk(slotId) == now <= slots[slotId].endTime + 4 * 60 * 60 * 1000

C17_FreshnessGate ==
    /\ [](\A k \in Cookies, s \in DOMAIN slots, t \in QrTokens :
            \A pingId \in PingChoices(PerformerByQr(t)) :
              /\ (StartLocated(k, s, t) /\ StartTimeOk(s))
                 => ( ConfirmStartResponse(k, s, t, pingId) = NoFreshPing
                      <=> ~HasPingWithin120s(PerformerByQr(t)) )
              /\ (EndLocated(k, s, t) /\ EndTimeOk(s))
                 => ( ConfirmEndResponse(k, s, t, pingId) = NoFreshPing
                      <=> ~HasPingWithin120s(PerformerByQr(t)) )
              /\ ConfirmStartResponse(k, s, t, pingId) = Ok
                 => HasPingWithin120s(PerformerByQr(t))
              /\ ConfirmEndResponse(k, s, t, pingId) = Ok
                 => HasPingWithin120s(PerformerByQr(t)))
    /\ [][\A k \in Cookies, s \in DOMAIN slots, t \in QrTokens :
            ( /\ ~HasPingWithin120s(PerformerByQr(t))
              /\ ConfirmStart(k, s, t) \/ ConfirmEnd(k, s, t) )
            => bookings' = bookings]_vars

\* the performer's booking waits for the scan, the performer's newest ping
\* is 121 seconds old, and the creator has a ping of the last 119 seconds
C17_Witness ==
    \E i \in BookingIds, j \in PingIds, c \in PingIds :
        /\ bookings[i].status = "checkin_requested"
        /\ StartLocated("kc", bookings[i].slotId, "tp")
        /\ bookings[i].userId = PerformerByQr("tp")
        /\ pings[j].userId = bookings[i].userId
        /\ now - pings[j].createdAt = 121 * 1000
        /\ ~HasPingWithin120s(bookings[i].userId)
        /\ pings[c].userId = getUserIdFromSession("kc")
        /\ now - pings[c].createdAt <= 119 * 1000

-----------------------------------------------------------------------------
(* C18: geofence gate.  A confirm-start or confirm-end that selected a ping *)
(* succeeds when the slot's object has no coordinates, whatever the ping's  *)
(* position, and when the ping is at most 200 m from the object; when it is *)
(* farther the answer is "too far from object" with the distance, and no    *)
(* booking changes.                                                         *)

ObjectOf(slotId) == objects[slots[slotId].objectId]

\* the object has coordinates and the ping is more than 200 m from it
Beyond200m(slotId, pingId) ==
    /\ ObjectOf(slotId).lat # NONE
    /\ ObjectOf(slotId).lng # NONE
    /\ haversineMeters(pings[pingId].lat, pings[pingId].lng,
                       ObjectOf(slotId).lat, ObjectOf(slotId).lng) > 200

TooFarFrom(slotId, pingId) ==
    [code |-> 400, error |-> "too far from object",
     distanceM |-> haversineMeters(pings[pingId].lat, pings[pingId].lng,
                                   ObjectOf(slotId).lat, ObjectOf(slotId).lng)]

C18_GeofenceGate ==
    /\ [](\A k \in Cookies, s \in DOMAIN slots, t \in QrTokens :
            \A pingId \in PingChoices(PerformerByQr(t)) \ {0} :
              /\ (StartLocated(k, s, t) /\ StartTimeOk(s))
                 => ConfirmStartResponse(k, s, t, pingId) =
                      IF Beyond200m(s, pingId) THEN TooFarFrom(s, pingId) ELSE Ok
              /\ (EndLocated(k, s, t) /\ EndTimeOk(s))
                 => ConfirmEndResponse(k, s, t, pingId) =
                      IF Beyond200m(s, pingId) THEN TooFarFrom(s, pingId) ELSE Ok)
    /\ [][\A k \in Cookies, s \in DOMAIN slots, t \in QrTokens :
            ( /\ \A pingId \in PingChoices(PerformerByQr(t)) :
                    pingId # 0 /\ Beyond200m(s, pingId)
              /\ ConfirmStart(k, s, t) \/ ConfirmEnd(k, s, t) )
            => bookings' = bookings]_vars

\* a start was confirmed with a ping exactly 200 m from the slot's object,
\* and one 201 m from o1 for a slot whose object has no coordinates
C18_Witness ==
    \E i \in BookingIds, j \in BookingIds :
        /\ ObjectOf(bookings[i].slotId).lat # NONE
        /\ bookings[i].startConfirmedAt # NONE
        /\ Abs(bookings[i].startLat - ObjectOf(bookings[i].slotId).lat) = 200
        /\ ObjectOf(bookings[j].slotId).lat = NONE
        /\ bookings[j].startConfirmedAt # NONE
        /\ bookings[j].startLat = 201

-----------------------------------------------------------------------------
(* C19: the ping a confirmation uses is the performer's most recent ping of *)
(* the last 120 seconds.  When that ping is more than 200 m from the object *)
(* the answer is "too far from object", older fresh pings within range      *)
(* notwithstanding, and the coordinates a confirmation stores are those of  *)
(* that ping.                                                               *)

Within120s(userId) ==
    { j \in PingIds : /\ pings[j].userId = userId
                      /\ pings[j].createdAt >= now - 120 * 1000 }

NewestWithin120s(userId) ==
    { j \in Within120s(userId) :
        \A o \in Within120s(userId) : pings[o].createdAt <= pings[j].createdAt }

C19_NewestPingUsed ==
    /\ [](\A k \in Cookies, s \in DOMAIN slots, t \in QrTokens :
            ( /\ Within120s(PerformerByQr(t)) # {}
              /\ \A j \in NewestWithin120s(PerformerByQr(t)) : Beyond200m(s, j) )
            => \A pingId \in PingChoices(PerformerByQr(t)) :
                 /\ (StartLocated(k, s, t) /\ StartTimeOk(s))
                    => ConfirmStartResponse(k, s, t, pingId).error = "too far from object"
                 /\ (EndLocated(k, s, t) /\ EndTimeOk(s))
                    => ConfirmEndResponse(k, s, t, pingId).error = "too far from object")
    /\ [][\A k \in Cookies, s \in DOMAIN slots, t \in QrTokens :
            /\ (ConfirmStart(k, s, t) /\ bookings' # bookings)
               => \E i \in BookingIds, j \in NewestWithin120s(PerformerByQr(t)) :
                    /\ bookings'[i] # bookings[i]
                    /\ bookings'[i].startLat = pings[j].lat
                    /\ bookings'[i].startLng = pings[j].lng
            /\ (ConfirmEnd(k, s, t) /\ bookings' # bookings)
               => \E i \in BookingIds, j \in NewestWithin120s(PerformerByQr(t)) :
                    /\ bookings'[i] # bookings[i]
                    /\ bookings'[i].endLat = pings[j].lat
                    /\ bookings'[i].endLng = pings[j].lng]_vars

\* the performer's booking waits for the scan with two fresh pings, the
\* older one within 200 m of the object and the newer one beyond
C19_Witness ==
    \E i \in BookingIds, a \in PingIds, b \in PingIds :
        /\ StartLocated("kc", bookings[i].slotId, "tp")
        /\ bookings[i].userId = PerformerByQr("tp")
        /\ {a, b} \subseteq Within120s(bookings[i].userId)
        /\ pings[a].createdAt < pings[b].createdAt
        /\ ~Beyond200m(bookings[i].slotId, a)
        /\ Beyond200m(bookings[i].slotId, b)

-----------------------------------------------------------------------------
(* C20: a successful confirm-start changes exactly one booking, one of the  *)
(* (slot, performer) not yet start-confirmed: status becomes `started`,     *)
(* startsAt and startConfirmedAt the current time, startConfirmedById the   *)
(* senior, startLat/startLng the selected ping's coordinates; its end       *)
(* fields and every other booking stay as they are.                         *)

Started(b, seniorId, ping) ==
    [userId |-> b.userId, slotId |-> b.slotId, status |-> "started",
     startsAt |-> now, startConfirmedAt |-> now, startConfirmedById |-> seniorId,
     startLat |-> ping.lat, startLng |-> ping.lng,
     endsAt |-> b.endsAt, endConfirmedAt |-> b.endConfirmedAt,
     endConfirmedById |-> b.endConfirmedById,
     endLat |-> b.endLat, endLng |-> b.endLng]

C20_ConfirmStartEffect ==
    [][\A k \in Cookies, s \in DOMAIN slots, t \in QrTokens :
         ConfirmStart(k, s, t)
         => /\ \/ bookings' = bookings
               \/ \E id \in BookingIds, j \in NewestWithin120s(PerformerByQr(t)) :
                    /\ bookings[id].slotId = s
                    /\ bookings[id].userId = PerformerByQr(t)
                    /\ bookings[id].startConfirmedAt = NONE
                    /\ bookings' = [bookings EXCEPT ![id] =
                           Started(bookings[id], getUserIdFromSession(k), pings[j])]
            /\ (\A pingId \in PingChoices(PerformerByQr(t)) :
                    ConfirmStartResponse(k, s, t, pingId) = Ok)
               => bookings' # bookings]_vars

\* a start was confirmed by c with a ping 200 m from the object, no end
\* field of the booking is set, and another booking still waits for its scan
C20_Witness ==
    \E i \in BookingIds, j \in BookingIds :
        /\ bookings[i].status = "started"
        /\ bookings[i].startsAt = bookings[i].startConfirmedAt
        /\ bookings[i].startConfirmedById = "c"
        /\ bookings[i].startLat = 200
        /\ bookings[i].endsAt = NONE
        /\ bookings[i].endConfirmedAt = NONE
        /\ bookings[i].endConfirmedById = NULL
        /\ bookings[i].endLat = NONE
        /\ bookings[j].status = "checkin_requested"

-----------------------------------------------------------------------------
(* C21: confirm-end locates a booking of (slot, performer) whose status is  *)
(* `started`, `booked` or `checkin_requested` and whose endConfirmedAt is   *)
(* unset, and is answered 404 "Booking not found" when there is none; the   *)
(* same confirm-end repeated after a successful one is answered so.         *)

EndEligible(performerId, slotId) ==
    { i \in BookingIds : /\ bookings[i].userId = performerId
                         /\ bookings[i].slotId = slotId
                         /\ bookings[i].status \in {"started", "booked", "checkin_requested"}
                         /\ bookings[i].endConfirmedAt = NONE }

BookingNotFound == Response(404, "Booking not found")

C21_EndEligibility ==
    /\ [](\A k \in Cookies, s \in DOMAIN slots, t \in QrTokens :
            (getUserIdFromSession(k) # NULL /\ PerformerByQr(t) # NULL)
            => \A pingId \in PingChoices(PerformerByQr(t)) :
                 ConfirmEndResponse(k, s, t, pingId) = BookingNotFound
                 <=> EndEligible(PerformerByQr(t), s) = {})
    /\ [][\A k \in Cookies, s \in DOMAIN slots, t \in QrTokens :
            (ConfirmEnd(k, s, t) /\ bookings' # bookings)
            => /\ \E i \in EndEligible(PerformerByQr(t), s) :
                    bookings'[i].status = "ended"
               /\ (\A pingId \in PingChoices(PerformerByQr(t)) :
                     ConfirmEndResponse(k, s, t, pingId) = BookingNotFound)']_vars

-----------------------------------------------------------------------------
(* C22: a successful confirm-end changes exactly one booking, one eligible  *)
(* for it: status becomes `ended`, endsAt and endConfirmedAt the current    *)
(* time, endConfirmedById the senior, endLat/endLng the selected ping's     *)
(* coordinates; its start fields and every other booking stay as they are.  *)
(* A booking with both startsAt and endsAt set has startsAt <= endsAt.      *)

Ended(b, seniorId, ping) ==
    [userId |-> b.userId, slotId |-> b.slotId, status |-> "ended",
     startsAt |-> b.startsAt, startConfirmedAt |-> b.startConfirmedAt,
     startConfirmedById |-> b.startConfirmedById,
     startLat |-> b.startLat, startLng |-> b.startLng,
     endsAt |-> now, endConfirmedAt |-> now, endConfirmedById |-> seniorId,
     endLat |-> ping.lat, endLng |-> ping.lng]

-----------------------------------------------------------------------------
(* C23: a rejected confirm-start or confirm-end changes no booking and no   *)
(* ping, so that the same call is accepted as soon as every gate holds:     *)
(* booking located, time gate open, a fresh ping in range.                  *)

C23_RejectionChangesNothing ==
    /\ [][\A k \in Cookies, s \in SlotIds, t \in QrTokens :
            /\ ConfirmStart(k, s, t)
               => /\ pings' = pings
                  /\ \/ bookings' = bookings
                     \/ \E pingId \in PingChoices(PerformerByQr(t)) :
                          ConfirmStartResponse(k, s, t, pingId) = Ok
            /\ ConfirmEnd(k, s, t)
               => /\ pings' = pings
                  /\ \/ bookings' = bookings
                     \/ \E pingId \in PingChoices(PerformerByQr(t)) :
                          ConfirmEndResponse(k, s, t, pingId) = Ok]_vars
    /\ [](\A k \in Cookies, s \in DOMAIN slots, t \in QrTokens :
            \A pingId \in PingChoices(PerformerByQr(t)) :
              /\ (StartLocated(k, s, t) /\ StartTimeOk(s) /\ PingInRange(s, pingId))
                 => ConfirmStartResponse(k, s, t, pingId) = Ok
              /\ (EndLocated(k, s, t) /\ EndTimeOk(s) /\ PingInRange(s, pingId))
                 => ConfirmEndResponse(k, s, t, pingId) = Ok)

\* the performer's earlier ping was beyond the geofence of the slot's
\* object, a later one within it, and the start was confirmed with the later
C23_Witness ==
    \E i \in BookingIds, a \in PingIds, b \in PingIds :
        /\ bookings[i].status = "started"
        /\ pings[a].userId = bookings[i].userId
        /\ pings[b].userId = bookings[i].userId
        /\ pings[a].createdAt < pings[b].createdAt
        /\ Beyond200m(bookings[i].slotId, a)
        /\ ~Beyond200m(bookings[i].slotId, b)
        /\ ObjectOf(bookings[i].slotId).lat # NONE
        /\ bookings[i].startConfirmedAt = pings[b].createdAt
        /\ bookings[i].startLat = pings[b].lat

-----------------------------------------------------------------------------
(* C24: the map booking-state returns for a performer has as keys exactly   *)
(* the slots of all the performer's bookings, cancelled ones included and   *)
(* other users' bookings excluded, and as value for each slot the status of *)
(* the performer's latest booking on that slot.                             *)

\* the booking of (user, slot) made last
Latest(userId, slotId) ==
    CHOOSE i \in BookingsOf(userId, slotId, Statuses) :
        \A j \in BookingsOf(userId, slotId, Statuses) : j <= i

C24_StateIsLatestStatus ==
    \A k \in Cookies :
        getUserIdFromSession(k) # NULL
        => \A out \in StateMaps(getUserIdFromSession(k)) :
             /\ DOMAIN out = { s \in DOMAIN slots :
                     BookingsOf(getUserIdFromSession(k), s, Statuses) # {} }
             /\ \A s \in DOMAIN out :
                    out[s] = bookings[Latest(getUserIdFromSession(k), s)].status

-----------------------------------------------------------------------------
(* C25: the pings are append-only: every step keeps each existing ping row  *)
(* as it is, and a successful record-ping and a successful check-in request *)
(* each add exactly one row, which carries the caller's user id.            *)

\* pings' is pings with one more row, of the given user
OnePingAdded(userId) ==
    /\ Len(pings') = Len(pings) + 1
    /\ SubSeq(pings', 1, Len(pings)) = pings
    /\ pings'[Len(pings')].userId = userId

-----------------------------------------------------------------------------
(* C26: a session token resolves to the user of its session row while now   *)
(* is before expiresAt; at or after expiresAt it resolves to no user and    *)
(* the lookup deletes the row, and a token whose row is gone never resolves *)
(* again; a token without a row resolves to no user and changes nothing.    *)

Expired(k) ==
    /\ k # ""
    /\ sha256Hex(k) \in DOMAIN sessions
    /\ sessions[sha256Hex(k)].expiresAt <= now

\* one of the handlers that resolve the cookie runs
Resolves(k) ==
    \/ GetState(k) \/ GetList(k) \/ AuthMe(k)
    \/ CreateBooking(k, "s1") \/ CancelBooking(k, "s1")
    \/ RequestCheckin(k, "s1", 0, 37)
    \/ ConfirmStart(k, "s1", "tp") \/ ConfirmEnd(k, "s1", "tp")

C26_SessionLifecycle ==
    /\ [](\A k \in Cookies \ {""} :
            LET h == sha256Hex(k) IN
            /\ (h \in DOMAIN sessions /\ now < sessions[h].expiresAt)
               => /\ getUserIdFromSession(k) = sessions[h].userId
                  /\ MeUser(k) = sessions[h].userId
                  /\ SessionsAfterRead(k) = sessions
            /\ (h \in DOMAIN sessions /\ now >= sessions[h].expiresAt)
               => /\ getUserIdFromSession(k) = NULL
                  /\ MeUser(k) = NULL
                  /\ SessionsAfterRead(k) = SessionsWithout(h)
            /\ h \notin DOMAIN sessions
               => /\ getUserIdFromSession(k) = NULL
                  /\ MeUser(k) = NULL
                  /\ SessionsAfterRead(k) = sessions)
    /\ [][\A k \in Cookies :
            /\ (Resolves(k) /\ Expired(k))
               => sessions' = SessionsWithout(sha256Hex(k))
            /\ (Resolves(k) /\ ~Expired(k)) => sessions' = sessions
            /\ (k \in issued /\ sha256Hex(k) \notin DOMAIN sessions)
               => sha256Hex(k) \notin DOMAIN sessions']_vars
    /\ [][\A u \in Users :
            Login(u) => \E k \in issued' \ issued :
                          /\ sessions' = SessionsAfterLogin(u, k)
                          /\ (getUserIdFromSession(k))' = u]_vars

\* past the expiry of the first sessions: the row of kc has been deleted,
\* the row of kp is still there, expired, and the later session of kx is
\* valid
C26_Witness ==
    /\ now >= SessionTtlMs
    /\ "kx" \in issued
    /\ "hc" \notin DOMAIN sessions
    /\ "hp" \in DOMAIN sessions
    /\ "hx" \in DOMAIN sessions
    /\ getUserIdFromSession("kc") = NULL
    /\ getUserIdFromSession("kp") = NULL
    /\ getUserIdFromSession("kx") = sessions["hx"].userId

-----------------------------------------------------------------------------
(* C27: two lookups of the same expired session that both read the row      *)
(* before either deletes it are harmless: each returns no user and no       *)
(* error, the row is gone after the deletes, and every other session row    *)
(* stays.                                                                   *)

C27_ConcurrentExpiryBenign ==
    /\ [](\A i \in 1..Len(inflight) :
            inflight[i].op = "session-delete"
            => /\ ResolveResult(i) = [userId |-> NULL, error |-> NULL]
               /\ inflight[i].tokenHash \in DOMAIN sessions
                  => /\ sessions[inflight[i].tokenHash].expiresAt <= now
                     /\ sessions[inflight[i].tokenHash].userId = inflight[i].userId)
    /\ [][\A i \in 1..Len(inflight) :
            ResolveCommit(i)
            => /\ sessions' = SessionsWithout(inflight[i].tokenHash)
               /\ inflight[i].tokenHash \notin DOMAIN sessions']_vars

\* both lookups had read the row; the first has deleted it, the second is
\* about to delete a row that is no longer there; another session exists
C27_Witness ==
    /\ Len(inflight) = 1
    /\ inflight[1].op = "session-delete"
    /\ DeleteError(inflight[1].tokenHash) = "P2025"
    /\ \E h \in DOMAIN sessions : sessions[h].userId = inflight[1].userId

-----------------------------------------------------------------------------
(* C28: with a cookie that has no session row or an expired one, booking    *)
(* state, create, cancel, list, confirm-start and confirm-end answer 401    *)
(* and change no booking and no ping; a successful create, cancel or        *)
(* confirmation acts for the user of the cookie's session row.              *)

\* the cookie has a session row that has not expired
ValidSession(k) ==
    /\ k # ""
    /\ sha256Hex(k) \in DOMAIN sessions
    /\ now < sessions[sha256Hex(k)].expiresAt

\* the booking rows a step changes or adds
Touched == { i \in 1..Len(bookings') : i > Len(bookings) \/ bookings'[i] # bookings[i] }

C28_Unauthorized ==
    /\ [](\A k \in Cookies :
            ~ValidSession(k)
            => /\ StateResponse(k).code = 401
               /\ ListResponse(k).code = 401
               /\ CreateResponse(k, "s1").code = 401
               /\ CancelResponse(k, "s1").code = 401
               /\ \A pingId \in PingChoices(PerformerByQr("tp")) :
                     /\ ConfirmStartResponse(k, "s1", "tp", pingId).code = 401
                     /\ ConfirmEndResponse(k, "s1", "tp", pingId).code = 401)
    /\ [][\A k \in Cookies :
            /\ (~ValidSession(k) /\ Resolves(k))
               => (bookings' = bookings /\ pings' = pings)
            /\ (CreateBooking(k, "s1") \/ CancelBooking(k, "s1"))
               => \A i \in Touched :
                     /\ ValidSession(k)
                     /\ bookings'[i].userId = sessions[sha256Hex(k)].userId
            /\ ConfirmStart(k, "s1", "tp")
               => \A i \in Touched :
                     /\ ValidSession(k)
                     /\ bookings'[i].startConfirmedById = sessions[sha256Hex(k)].userId
            /\ ConfirmEnd(k, "s1", "tp")
               => \A i \in Touched :
                     /\ ValidSession(k)
                     /\ bookings'[i].endConfirmedById = sessions[sha256Hex(k)].userId]_vars

\* the session of p has expired and p's cookie no longer cancels p's own
\* booking; a ping exists and the later session of kx is valid
C28_Witness ==
    /\ "hp" \in DOMAIN sessions
    /\ ~ValidSession("kp")
    /\ ValidSession("kx")
    /\ Len(pings) >= 1
    /\ \E i \in BookingIds : /\ bookings[i].userId = "p"
                             /\ bookings[i].status = "booked"
    /\ CancelResponse("kp", "s1").code = 401

-----------------------------------------------------------------------------
(* C29: the shift of p on slot s1 runs through: with p's booking booked at  *)
(* 09:50, p's in-range ping is accepted and c's confirm-start then sets     *)
(* status started and startsAt 09:50; with the booking started at 18:10,    *)
(* p's in-range ping is accepted and c's confirm-end then sets status ended *)
(* and endsAt 18:10.                                                        *)

\* p has a booking of s1 in the status
ShiftIs(status) == BookingsOf("p", "s1", {status}) # {}

\* p's in-range ping is accepted, as a record-ping or as a check-in request
PingAccepted ==
    \/ PingResponse("kp", 0, 37) = Ok
    \/ CheckinResponse("kp", "s1", 0, 37) = Ok

C29_EndToEnd ==
    /\ []( /\ (ShiftIs("booked") /\ now = HM(9, 50)) => PingAccepted
           /\ (ShiftIs("started") /\ now = HM(18, 10)) => PingAccepted )
    /\ [](\A pingId \in PingChoices("p") :
            PingInRange("s1", pingId)
            => /\ (ShiftIs("booked") /\ now = HM(9, 50))
                  => ConfirmStartResponse("kc", "s1", "tp", pingId) = Ok
               /\ (ShiftIs("started") /\ now = HM(18, 10))
                  => ConfirmEndResponse("kc", "s1", "tp", pingId) = Ok)
    /\ [][/\ (ConfirmStart("kc", "s1", "tp") /\ now = HM(9, 50))
             => \A i \in Touched : /\ bookings'[i].status = "started"
                                   /\ bookings'[i].startsAt = HM(9, 50)
          /\ (ConfirmEnd("kc", "s1", "tp") /\ now = HM(18, 10))
             => \A i \in Touched : /\ bookings'[i].status = "ended"
                                   /\ bookings'[i].endsAt = HM(18, 10)]_vars

-----------------------------------------------------------------------------
(* C30: every user with a session, that is after a login callback that      *)
(* succeeded, has a performerQrToken; no two users hold the same token; and *)
(* no step replaces the token a user has with another value.                *)

C30_QrTokenStable ==
    /\ [](\A h \in DOMAIN sessions :
            users[sessions[h].userId].performerQrToken # NULL)
    /\ [](\A u, v \in DOMAIN users :
            (u # v /\ users[u].performerQrToken # NULL)
            => users[u].performerQrToken # users[v].performerQrToken)
    /\ [][\A u \in DOMAIN users :
            users[u].performerQrToken # NULL
            => users'[u].performerQrToken = users[u].performerQrToken]_vars

-----------------------------------------------------------------------------
(* C31: every object has lat and lng both set or both null; a create or an  *)
(* update whose result would have exactly one of them set is rejected and   *)
(* changes nothing.                                                         *)

Paired(o) == (o.lat = NONE) <=> (o.lng = NONE)

\* the object a PATCH with these keys would leave
Patched(id, lat, lng) ==
    [lat |-> IF lat # ABSENT THEN OrNull(lat) ELSE objects[id].lat,
     lng |-> IF lng # ABSENT THEN OrNull(lng) ELSE objects[id].lng]

C31_CoordinatePair ==
    /\ [](\A o \in DOMAIN objects : Paired(objects[o]))
    /\ [](\A id \in DOMAIN objects, lat \in LatInputs, lng \in LngInputs :
            ~Paired(Patched(id, lat, lng))
            => PatchObjectResponse("kc", id, lat, lng).code = 400)
    /\ [](\A lat \in LatInputs, lng \in LngInputs :
            ~Paired([lat |-> OrNull(lat), lng |-> OrNull(lng)])
            => CreateObjectResponse("kc", lat, lng).code = 400)
    /\ [][\A k \in {"", "kc"}, id \in DOMAIN objects,
            lat \in LatInputs, lng \in LngInputs :
            (PatchObject(k, id, lat, lng) /\ PatchObjectResponse(k, id, lat, lng) # Ok)
            => objects' = objects]_vars

-----------------------------------------------------------------------------
(* C32: confirm-start and confirm-end answer with the first gate that fails *)
(* in the order session, QR token, eligible booking, creator, time window,  *)
(* fresh ping, geofence.                                                    *)

\* the user who holds the QR token, NULL when nobody does
HolderOf(t) ==
    IF \E u \in DOMAIN users : users[u].performerQrToken = t
    THEN CHOOSE u \in DOMAIN users : users[u].performerQrToken = t
    ELSE NULL

StartEligible(performerId, slotId) ==
    { i \in BookingsOf(performerId, slotId, {"booked", "checkin_requested"}) :
        bookings[i].startConfirmedAt = NONE }

\* the answer of the gates after the booking lookup, the same for both scans
LaterGates(k, s, t, pingId, timeOk, early) ==
    IF slots[s].createdById # sessions[sha256Hex(k)].userId THEN Forbidden
    ELSE IF ~timeOk THEN early
    ELSE IF ~HasPingWithin120s(HolderOf(t)) THEN NoFreshPing
    ELSE IF Beyond200m(s, pingId) THEN TooFarFrom(s, pingId)
    ELSE Ok

FirstFailingStart(k, s, t, pingId) ==
    IF ~ValidSession(k) THEN Response(401, "Unauthorized")
    ELSE IF HolderOf(t) = NULL THEN Response(404, "Performer not found by qrToken")
    ELSE IF StartEligible(HolderOf(t), s) = {} THEN BookingNotFound
    ELSE LaterGates(k, s, t, pingId, StartTimeOk(s), Response(400, "too early"))

FirstFailingEnd(k, s, t, pingId) ==
    IF ~ValidSession(k) THEN Response(401, "Unauthorized")
    ELSE IF HolderOf(t) = NULL THEN Response(404, "Performer not found by qrToken")
    ELSE IF EndEligible(HolderOf(t), s) = {} THEN BookingNotFound
    ELSE LaterGates(k, s, t, pingId, EndTimeOk(s),
                    Response(400, "too late to confirm end"))

-----------------------------------------------------------------------------
(* C33: a check-in request of user U succeeds only if U has a `booked`      *)
(* booking on the slot, now is not before slot.startTime - 15 minutes and   *)
(* the position is within 200 m of the object when the object has           *)
(* coordinates; it then appends one ping of U at that position and moves    *)
(* that booking to checkin_requested, leaving every other field; a failed   *)
(* request writes no ping and changes no booking.                           *)

\* the position is acceptable for the slot's object
Within200m(slotId, lat, lng) ==
    \/ ObjectOf(slotId).lat = NONE
    \/ ObjectOf(slotId).lng = NONE
    \/ haversineMeters(lat, lng, ObjectOf(slotId).lat, ObjectOf(slotId).lng) <= 200

\* the conditions of the claim
MayCheckin(k, slotId, lat, lng) ==
    /\ ValidSession(k)
    /\ slotId \in DOMAIN slots
    /\ BookingsOf(sessions[sha256Hex(k)].userId, slotId, {"booked"}) # {}
    /\ StartTimeOk(slotId)
    /\ Within200m(slotId, lat, lng)

-----------------------------------------------------------------------------
(* C34: an OAuth state that was handed out and whose row is gone, consumed  *)
(* by a callback or deleted as expired, is not accepted by any later        *)
(* callback, whichever state cookie the request presents.                   *)

C34_StateOneTime ==
    \A state \in OAuthStates \cap issued :
        state \notin DOMAIN oAuthState
        => \A kind \in FlowKinds, cookieState \in OAuthStates \cup {""} :
              StateCheckResponse(kind, state, cookieState) # Ok

-----------------------------------------------------------------------------
(* C35: record-ping treats the session as the booking operations do: with   *)
(* an expired or deleted session it answers unauthorized and appends no     *)
(* ping, with a valid session it is authorized, and the ping it stores      *)
(* carries the user of the presented session.                               *)

C35_PingSessionValidity ==
    /\ [](\A k \in Cookies :
            /\ ~ValidSession(k) => PingResponse(k, 0, 37).code = 401
            /\ ValidSession(k) => /\ CreateResponse(k, "s0").code # 401
                                  /\ PingResponse(k, 0, 37).code # 401)
    /\ [][\A k \in Cookies :
            (RecordPing(k, 0, 37) /\ pings' # pings)
            => /\ ValidSession(k)
               /\ OnePingAdded(sessions[sha256Hex(k)].userId)]_vars

-----------------------------------------------------------------------------
(* C36: in every state reached by whole (not interleaved) operations, a     *)
(* started booking has startConfirmedAt, startsAt and startConfirmedById    *)
(* and no endConfirmedAt; an ended booking has endConfirmedAt and endsAt; a *)
(* booking with startConfirmedAt is started or ended; a booked,             *)
(* checkin_requested or cancelled booking has neither confirmation time.    *)

Consistent(b) ==
    /\ b.status = "started"
       => /\ b.startConfirmedAt # NONE /\ b.startsAt # NONE
          /\ b.startConfirmedById # NULL
          /\ b.endConfirmedAt = NONE
    /\ b.status = "ended" => (b.endConfirmedAt # NONE /\ b.endsAt # NONE)
    /\ b.startConfirmedAt # NONE => b.status \in {"started", "ended"}
    /\ b.status \in {"booked", "checkin_requested", "cancelled"}
       => (b.startConfirmedAt = NONE /\ b.endConfirmedAt = NONE)

C36_StatusConsistency == \A i \in BookingIds : Consistent(bookings[i])

\* both confirmations have acted: one booking is started, another is ended
\* without ever having been started
C36_Witness ==
    \E i, j \in BookingIds :
        /\ bookings[i].status = "started"
        /\ bookings[j].status = "ended"
        /\ bookings[j].startConfirmedAt = NONE

-----------------------------------------------------------------------------
(* C37: when a cancel runs interleaved with a confirm-start, a confirm-end  *)
(* or a check-in request of the same booking, no booking is ever cancelled  *)
(* with a confirmation time set, no started, ended or checkin_requested     *)
(* booking becomes cancelled, and no cancelled booking becomes              *)
(* checkin_requested, started or ended.                                     *)

C37_CancelRace ==
    /\ [](\A i \in BookingIds :
            bookings[i].status = "cancelled"
            => /\ bookings[i].startConfirmedAt = NONE
               /\ bookings[i].endConfirmedAt = NONE)
    /\ [][\A i \in BookingIds :
            /\ bookings[i].status \in {"started", "ended", "checkin_requested"}
               => bookings'[i].status # "cancelled"
            /\ bookings[i].status = "cancelled"
               => bookings'[i].status \notin {"checkin_requested", "started", "ended"}]_vars

-----------------------------------------------------------------------------
(* C38: once a user's booking of a slot is checkin_requested, started or    *)
(* ended, the user's cancel of that slot is answered 404 "Active booking    *)
(* not found" and no such booking ever becomes cancelled.                   *)

C38_NoCancelAfterCheckin ==
    /\ [](\A k \in Cookies, s \in SlotIds :
            ( /\ ValidSession(k)
              /\ BookingsOf(sessions[sha256Hex(k)].userId, s,
                            {"checkin_requested", "started", "ended"}) # {} )
            => CancelResponse(k, s) = Response(404, "Active booking not found"))
    /\ [][\A i \in BookingIds :
            bookings[i].status \in {"checkin_requested", "started", "ended"}
            => bookings'[i].status = bookings[i].status
               \/ bookings'[i].status \in {"started", "ended"}]_vars

-----------------------------------------------------------------------------
(* C39: a confirm-start or confirm-end with the QR token of performer A for *)
(* slot S changes at most one booking, a booking of A on S, and adds none;  *)
(* when A has no eligible booking on S the scan is rejected, whoever else   *)
(* is booked on S.                                                          *)

C39_ScanFrame ==
    /\ [][\A k \in Cookies, s \in SlotIds, t \in QrTokens :
            (ConfirmStart(k, s, t) \/ ConfirmEnd(k, s, t))
            => /\ Len(bookings') = Len(bookings)
               /\ \A i \in Touched : /\ bookings[i].userId = HolderOf(t)
                                     /\ bookings[i].slotId = s
               /\ \A i, j \in Touched : i = j]_vars
    /\ [](\A k \in Cookies, s \in SlotIds, t \in QrTokens :
            \A pingId \in PingChoices(PerformerByQr(t)) :
              /\ (HolderOf(t) = NULL \/ StartEligible(HolderOf(t), s) = {})
                 => ConfirmStartResponse(k, s, t, pingId) # Ok
              /\ (HolderOf(t) = NULL \/ EndEligible(HolderOf(t), s) = {})
                 => ConfirmEndResponse(k, s, t, pingId) # Ok)

\* c and p are both booked on s1; the scan of p's token has started p's
\* booking and left c's as it was
C39_Witness ==
    \E i, j \in BookingIds :
        /\ bookings[i].userId = "p" /\ bookings[i].slotId = "s1"
        /\ bookings[i].status = "started"
        /\ bookings[j].userId = "c" /\ bookings[j].slotId = "s1"
        /\ bookings[j].status = "booked"
        /\ Unconfirmed(bookings[j])

-----------------------------------------------------------------------------
(* C40: a started booking can still be ended: no booking becomes started    *)
(* later than slot.endTime + 4 hours, and right after a booking has become  *)
(* started a confirm-end by the slot's creator with the performer's fresh   *)
(* ping in range is accepted.                                               *)

\* the step makes booking i started
BecomesStarted(i) ==
    bookings[i].status # "started" /\ bookings'[i].status = "started"

C40_StartedCanEnd ==
    [][\A i \in BookingIds :
         BecomesStarted(i)
         => /\ now <= slots[bookings[i].slotId].endTime + 4 * 60 * 60 * 1000
            /\ \A pingId \in PingChoices(bookings[i].userId) :
                 PingInRange(bookings[i].slotId, pingId)
                 => (ConfirmEndResponse("kc", bookings[i].slotId, "tp", pingId))' = Ok]_vars

====
